---- MODULE Spec2Model ----
(***************************************************************************)
(* Model of the enclave channel of PROXYRE-ENCLAVE-APP:                    *)
(*   - the framed transport of src/src/protocol_helpers.rs                 *)
(*     (send_loop, recv_loop, send_u64, recv_u64) over a stream socket,    *)
(*   - the channel connector vsock_connect of src/src/lib.rs with the      *)
(*     destructor of VsockSocket,                                          *)
(*   - the listener server(args) of src/src/lib.rs and the exits of main,  *)
(*   - the handler fetch_content of POST /fetch with its encodings,        *)
(*   - main with the argument parser of src/src/command_parser.rs.         *)
(* Every component has its own specification (SpecSend, SpecRecv, SpecU64, *)
(* SpecConnect, SpecServer, SpecFetch, SpecCli); the components that a     *)
(* specification does not exercise are parked in their idle state by its   *)
(* initial predicate.                                                      *)
(*                                                                         *)
(* A u64 is kept as four 16-bit limbs <<l0, l1, l2, l3>>, least            *)
(* significant first (value = l0 + 2^16 l1 + 2^32 l2 + 2^48 l3), because   *)
(* the integers of the model checker are 32 bits wide.                     *)
(***************************************************************************)
EXTENDS Naturals, Sequences, FiniteSets

VARIABLES
    \* ---- send_loop(fd, buf, len) ----
    sBuf,        \* the caller's buffer
    sLen,        \* the len argument
    send_bytes,  \* the local send_bytes
    sPc,         \* "idle" | "loop" | "ok" | "err" | "panic"
    sErr,        \* the text of Err(..), NoErr otherwise
    sEintr,      \* number of send calls that ended with EINTR
    sOkCalls,    \* number of send calls that returned Ok(size), saturating
    \* ---- the connection ----
    wire,        \* the bytes the socket accepted from the sender, in order
    peerClosed,  \* the sending peer has closed its end
    \* ---- recv_loop(fd, buf, len) ----
    rBuf,        \* the caller's buffer
    rLen,        \* the len argument
    recv_bytes,  \* the local recv_bytes
    rPc,         \* "idle" | "loop" | "ok" | "err" | "panic"
    rErr,        \* the text of Err(..), NoErr otherwise
    rEintr,      \* number of recv calls that ended with EINTR
    rOkCalls,    \* number of recv calls that returned Ok(size), size > 0, saturating
    rZeroReads,  \* number of recv calls that returned Ok(0), saturating
    rTick,       \* parity of the number of recv calls that returned Ok(0)
    rPos,        \* number of bytes of the wire the socket has delivered
    \* ---- send_u64(fd, val) / recv_u64(fd) ----
    uVal,        \* the val argument of send_u64
    uSendRes,    \* what send_u64 returned: <<"none">>, <<"Ok">>, <<"Err", text>>
    uRecvRes,    \* what recv_u64 returned: <<"none">>, <<"Ok", val>>, <<"Err", text>>
    \* ---- vsock_connect(cid, port) ----
    cPc,         \* "socket" | "connect" | "sleep" | "shutdown" | "close" |
                 \* "ret_ok" | "ret_err" | "idle"
    cI,          \* the loop variable i
    cFd,         \* vsocket.socket_fd of the current iteration, 0 if none
    err_msg,     \* the local err_msg: <<>> is the empty String
    cResult,     \* <<"none">>, <<"Ok", fd>>, <<"Err", err_msg>>
    openFds,     \* descriptors created by this call and not closed
    shutFds,     \* descriptors shutdown was called on
    connectedFds,\* descriptors whose connect succeeded
    cFdCount,    \* sockets created by this call
    cAttempts,   \* connect calls made by this call
    cSleeps,     \* the durations slept, in seconds, in order
    cConnErrs,   \* the error of every failed connect, in order
    cSockFailed, \* socket() has failed
    cLastDrop,   \* the calls of the latest drop(vsocket), in order: <<op, ok>>
    cCalls,      \* calls of vsock_connect made so far, this one included
    cPastFails,  \* connects that failed in the earlier calls
    \* ---- server(args), called from main ----
    vPc,         \* "idle" | "socket" | "bind" | "listen" | "accept" | "recv_len" |
                 \* "recv_key" | "keygen" | "parse" | "spin" | "returned" |
                 \* "panicked" | "exited"
    vResult,     \* what server returned: <<"none">>, <<"Err", text>>
    vFail,       \* the call that failed: "none", "socket", "bind", "listen",
                 \* "accept", "recv_len", "recv_key", "key"
    vListenOpen, \* the listening socket (owned_fd) is open
    vAcceptCalls,\* calls of accept
    vAccepted,   \* connections accepted
    vCompleted,  \* iterations of the loop that reached their end
    vFd,         \* the fd of the current iteration, 0 if none
    vOpenFds,    \* accepted descriptors that are open
    vLen,        \* the local len, as usize
    vBuf,        \* the local buf
    vStream,     \* the bytes the peer of fd sends on the connection
    vPeerCloses, \* whether that peer closes after sending them (or stalls)
    vPos,        \* bytes of vStream the server has received
    vKeygens,    \* signing keys generated
    vPeerKey,    \* the bytes parsed as the peer's public key, <<>> if none
    vSent,       \* what server wrote to accepted descriptors: <<fd, bytes>>
    mExit,       \* exit code of the process, 0 while it runs
    \* ---- fetch_content(payload), the handler of POST /fetch ----
    fPc,         \* "idle" | "wait" | "parse" | "priv" | "owner_pk" | "deleg_pk" |
                 \* "keypair" | "encrypt" | "tkey" | "transform" | "encode" |
                 \* "responded" | "panicked"
    fBody,       \* the body of the request in hand
    fSteps,      \* the calls the handler made for this request, in order
    fFail,       \* the call that failed for this request, "none" if none
    fResponse,   \* what the handler returned: <<"none">>, <<"error", text>>,
                 \* <<"object">>
    fServed,     \* requests received
    \* ---- the locals of fetch_content that carry the pipeline's values ----
    signing_keypair, \* the keypair generated for the request, 0 if none
    plain_text,      \* the plaintext handed to encrypt
    encrypted_val,   \* the result of encrypt
    transform_key,   \* initial_to_target_transform_key
    transformed_val, \* the result of transform
    tfo,             \* the TFO wire object, the local `to`
    display,         \* the TransformedObject display record
    tfo_bytes,       \* to.write_to_bytes()
    \* ---- main and the argument parser ----
    aCmd,        \* the command line: subcommand, --port and --cid strings
    aPc,         \* "idle" | "get_matches" | "ok_or_exit" | "running" | "exited"
    aResult,     \* the result of new_with: <<"none">>, <<"Ok", args>>,
                 \* <<"Err", text>>
    aArgs,       \* the value ok_or_exit returned, <<>> if none
    aStarted,    \* the component main called: "none", "server", "client"
    aExit,       \* the exit code of the process, 0 while it runs
    aPort        \* the u16 port given to the socket address, NoPort if none

sVars == <<sBuf, sLen, send_bytes, sPc, sErr, sEintr, sOkCalls>>
wVars == <<wire, peerClosed>>
rVars == <<rBuf, rLen, recv_bytes, rPc, rErr, rEintr, rOkCalls, rZeroReads, rTick, rPos>>
uVars == <<uVal, uSendRes, uRecvRes>>
cVars == <<cPc, cI, cFd, err_msg, cResult, openFds, shutFds, connectedFds,
           cFdCount, cAttempts, cSleeps, cConnErrs, cSockFailed, cLastDrop,
           cCalls, cPastFails>>
vVars == <<vPc, vResult, vFail, vListenOpen, vAcceptCalls, vAccepted, vCompleted,
           vFd, vOpenFds, vLen, vBuf, vStream, vPeerCloses, vPos, vKeygens,
           vPeerKey, mExit, vSent>>
pVars == <<signing_keypair, plain_text, encrypted_val, transform_key,
           transformed_val, tfo, display, tfo_bytes>>
fVars == <<fPc, fBody, fSteps, fFail, fResponse, fServed, pVars>>
aVars == <<aCmd, aPc, aResult, aArgs, aStarted, aExit, aPort>>
vars == <<sVars, wVars, rVars, uVars, cVars, vVars, fVars, aVars>>

\* what the actions of one component leave alone
notTransportVars == <<uVars, cVars, vVars, fVars, aVars>>
notFramingVars == <<cVars, vVars, fVars, aVars>>
notConnectVars == <<sVars, wVars, rVars, uVars, vVars, fVars, aVars>>
notServerVars == <<sVars, wVars, rVars, uVars, cVars, fVars, aVars>>
notFetchVars == <<sVars, wVars, rVars, uVars, cVars, vVars, aVars>>
notCliVars == <<sVars, wVars, rVars, uVars, cVars, vVars, fVars>>

(***************************************************************************)
(* Bounds of the model.                                                    *)
(***************************************************************************)
MaxLen == 3          \* longest buffer and longest stream
MaxEintr == 1        \* EINTR results per loop
MaxZeroReads == 2    \* where the count of zero-length reads saturates
MaxCount == 2        \* where the counts of successful calls saturate

ByteVals == {1, 2}   \* the byte values of buffers and streams
NoErr == "none"
SendErrnos == {"EPIPE"}
RecvErrnos == {"ECONNRESET"}

Min(a, b) == IF a < b THEN a ELSE b
Zeros(n) == [i \in 1..n |-> 0]
SeqsUpTo(S, n) == UNION {[1..k -> S] : k \in 0..n}

(***************************************************************************)
(* Rust slice indexing buf[from..to]: in bounds iff from <= to <= len(buf),*)
(* a panic otherwise.                                                      *)
(***************************************************************************)
SliceInBounds(buf, from, to) == from <= to /\ to <= Len(buf)
Slice(buf, from, to) == SubSeq(buf, from + 1, to)

(***************************************************************************)
(* send_loop                                                               *)
(***************************************************************************)
SendLoopCondShort(sent, len) == sent + 1 < len
SendLoopCond(sent, len) == sent < len

SendSlice(buf, sent, len) == Slice(buf, sent, len)

SendAdvance(sent, size) == sent + size

\* Err(nix::Error::EINTR) => 0, in send_loop and in recv_loop
SizeOnEintrOne == 0 + 1
SizeOnEintr == 0

\* send returned Ok(size): the socket took the first n bytes of the slice
SendPartial ==
    /\ sPc = "loop"
    /\ SendLoopCond(send_bytes, sLen)
    /\ SliceInBounds(sBuf, send_bytes, sLen)
    /\ \E n \in 1..Len(SendSlice(sBuf, send_bytes, sLen)) :
          /\ wire' = wire \o SubSeq(SendSlice(sBuf, send_bytes, sLen), 1, n)
          /\ send_bytes' = SendAdvance(send_bytes, n)
    /\ sOkCalls' = Min(sOkCalls + 1, MaxCount)
    /\ UNCHANGED <<sBuf, sLen, sPc, sErr, sEintr, peerClosed, rVars>>
    /\ UNCHANGED notTransportVars

\* send returned Err(EINTR): size is 0
SendEintr ==
    /\ sPc = "loop"
    /\ SendLoopCond(send_bytes, sLen)
    /\ SliceInBounds(sBuf, send_bytes, sLen)
    /\ sEintr < MaxEintr
    /\ sEintr' = sEintr + 1
    /\ send_bytes' = SendAdvance(send_bytes, SizeOnEintr)
    /\ UNCHANGED <<sBuf, sLen, sPc, sErr, sOkCalls, wVars, rVars>>
    /\ UNCHANGED notTransportVars

\* send returned any other error: return Err(format!("{:?}", err))
SendError ==
    /\ sPc = "loop"
    /\ SendLoopCond(send_bytes, sLen)
    /\ SliceInBounds(sBuf, send_bytes, sLen)
    /\ \E e \in SendErrnos : sErr' = e
    /\ sPc' = "err"
    /\ UNCHANGED <<sBuf, sLen, send_bytes, sEintr, sOkCalls, wVars, rVars>>
    /\ UNCHANGED notTransportVars

\* &buf[send_bytes..len] with len > buf.len(): the slice index panics
SendPanic ==
    /\ sPc = "loop"
    /\ SendLoopCond(send_bytes, sLen)
    /\ ~SliceInBounds(sBuf, send_bytes, sLen)
    /\ sPc' = "panic"
    /\ UNCHANGED <<sBuf, sLen, send_bytes, sErr, sEintr, sOkCalls, wVars, rVars>>
    /\ UNCHANGED notTransportVars

\* the loop condition is false: Ok(())
SendReturn ==
    /\ sPc = "loop"
    /\ ~SendLoopCond(send_bytes, sLen)
    /\ sPc' = "ok"
    /\ UNCHANGED <<sBuf, sLen, send_bytes, sErr, sEintr, sOkCalls, wVars, rVars>>
    /\ UNCHANGED notTransportVars

SendIdle ==
    /\ sBuf = <<>> /\ sLen = 0 /\ send_bytes = 0 /\ sPc = "idle"
    /\ sErr = NoErr /\ sEintr = 0 /\ sOkCalls = 0

RecvIdle ==
    /\ rBuf = <<>> /\ rLen = 0 /\ recv_bytes = 0 /\ rPc = "idle"
    /\ rErr = NoErr /\ rEintr = 0 /\ rOkCalls = 0 /\ rZeroReads = 0
    /\ rTick = 0 /\ rPos = 0

U64Idle == uVal = <<0, 0, 0, 0>> /\ uSendRes = <<"none">> /\ uRecvRes = <<"none">>

ConnectIdle ==
    /\ cPc = "idle" /\ cI = 0 /\ cFd = 0 /\ err_msg = <<>>
    /\ cResult = <<"none">> /\ openFds = {} /\ shutFds = {}
    /\ connectedFds = {} /\ cFdCount = 0 /\ cAttempts = 0
    /\ cSleeps = <<>> /\ cConnErrs = <<>> /\ cSockFailed = FALSE
    /\ cLastDrop = <<>>
    /\ cCalls = 0 /\ cPastFails = 0

ServerIdle ==
    /\ vPc = "idle" /\ vResult = <<"none">> /\ vFail = "none"
    /\ vListenOpen = FALSE /\ vAcceptCalls = 0 /\ vAccepted = 0
    /\ vCompleted = 0 /\ vFd = 0 /\ vOpenFds = {} /\ vLen = 0
    /\ vBuf = <<>> /\ vStream = <<>> /\ vPeerCloses = FALSE /\ vPos = 0
    /\ vKeygens = 0 /\ vPeerKey = <<>> /\ mExit = 0
    /\ vSent = <<>>

NoBody == [kind |-> "none"]

NoCmd == [sub |-> "none", port |-> <<"absent">>, cid |-> <<"absent">>]

NoPort == <<"none">>
CliIdle ==
    /\ aCmd = NoCmd /\ aPc = "idle" /\ aResult = <<"none">> /\ aArgs = <<>>
    /\ aStarted = "none" /\ aExit = 0 /\ aPort = NoPort

NoVal == [tag |-> "none"]

\* the locals of fetch_content before they are assigned
PipeIdle ==
    /\ signing_keypair = 0 /\ plain_text = NoVal /\ encrypted_val = NoVal
    /\ transform_key = NoVal /\ transformed_val = NoVal /\ tfo = NoVal
    /\ display = NoVal /\ tfo_bytes = <<>>

FetchIdle ==
    /\ PipeIdle
    /\ fPc = "idle" /\ fBody = NoBody /\ fSteps = <<>> /\ fFail = "none"
    /\ fResponse = <<"none">> /\ fServed = 0

\* send_loop called with any buffer and any len up to one past its length
InitSend ==
    /\ sBuf \in SeqsUpTo(ByteVals, MaxLen)
    /\ sLen \in 0..(Len(sBuf) + 1)
    /\ send_bytes = 0 /\ sPc = "loop" /\ sErr = NoErr
    /\ sEintr = 0 /\ sOkCalls = 0
    /\ wire = <<>> /\ peerClosed = FALSE
    /\ RecvIdle /\ U64Idle /\ ConnectIdle /\ ServerIdle /\ FetchIdle /\ CliIdle

NextSend ==
    \/ SendPartial
    \/ SendEintr
    \/ SendError
    \/ SendPanic
    \/ SendReturn

SpecSend == InitSend /\ [][NextSend]_vars

(***************************************************************************)
(* recv_loop                                                               *)
(***************************************************************************)
RecvLoopCond(got, len) == got < len

\* where the slice &mut buf[recv_bytes..len] handed to recv starts
RecvSliceStartZero(got) == 0
RecvSliceStart(got) == got

RecvAdvance(got, size) == got + size

\* the socket copies chunk into the slice that starts at offset off of buf
RecvStore(buf, off, chunk) ==
    [i \in 1..Len(buf) |->
        IF i > off /\ i <= off + Len(chunk) THEN chunk[i - off] ELSE buf[i]]

\* recv returned Ok(size), size >= 1: the next n bytes of the stream
RecvChunk ==
    /\ rPc = "loop"
    /\ RecvLoopCond(recv_bytes, rLen)
    /\ SliceInBounds(rBuf, recv_bytes, rLen)
    /\ \E n \in 1..Min(rLen - RecvSliceStart(recv_bytes), Len(wire) - rPos) :
          /\ rBuf' = RecvStore(rBuf, RecvSliceStart(recv_bytes),
                               SubSeq(wire, rPos + 1, rPos + n))
          /\ rPos' = rPos + n
          /\ recv_bytes' = RecvAdvance(recv_bytes, n)
    /\ rOkCalls' = Min(rOkCalls + 1, MaxCount)
    /\ UNCHANGED <<rTick, rLen, rPc, rErr, rEintr, rZeroReads, sVars, wVars>>
    /\ UNCHANGED notTransportVars

\* recv returned Ok(0): the peer has closed and the stream is drained
RecvClosed ==
    /\ rPc = "loop"
    /\ RecvLoopCond(recv_bytes, rLen)
    /\ SliceInBounds(rBuf, recv_bytes, rLen)
    /\ peerClosed /\ rPos = Len(wire)
    /\ recv_bytes' = RecvAdvance(recv_bytes, 0)
    /\ rZeroReads' = Min(rZeroReads + 1, MaxZeroReads)
    /\ rTick' = 1 - rTick
    /\ UNCHANGED <<rBuf, rLen, rPc, rErr, rEintr, rOkCalls, rPos, sVars, wVars>>
    /\ UNCHANGED notTransportVars

\* recv returned Err(EINTR): size is 0
RecvEintr ==
    /\ rPc = "loop"
    /\ RecvLoopCond(recv_bytes, rLen)
    /\ SliceInBounds(rBuf, recv_bytes, rLen)
    /\ rEintr < MaxEintr
    /\ rEintr' = rEintr + 1
    /\ recv_bytes' = RecvAdvance(recv_bytes, SizeOnEintr)
    /\ UNCHANGED <<rTick, rBuf, rLen, rPc, rErr, rOkCalls, rZeroReads, rPos, sVars, wVars>>
    /\ UNCHANGED notTransportVars

\* recv returned any other error: return Err(format!("{:?}", err))
RecvError ==
    /\ rPc = "loop"
    /\ RecvLoopCond(recv_bytes, rLen)
    /\ SliceInBounds(rBuf, recv_bytes, rLen)
    /\ \E e \in RecvErrnos : rErr' = e
    /\ rPc' = "err"
    /\ UNCHANGED <<rTick, rBuf, rLen, recv_bytes, rEintr, rOkCalls, rZeroReads, rPos,
                   sVars, wVars>>
    /\ UNCHANGED notTransportVars

\* &mut buf[recv_bytes..len] with len > buf.len(): the slice index panics
RecvPanic ==
    /\ rPc = "loop"
    /\ RecvLoopCond(recv_bytes, rLen)
    /\ ~SliceInBounds(rBuf, recv_bytes, rLen)
    /\ rPc' = "panic"
    /\ UNCHANGED <<rBuf, rLen, recv_bytes, rErr, rEintr, rOkCalls, rZeroReads,
                   rTick, rPos, sVars, wVars>>
    /\ UNCHANGED notTransportVars

\* the loop condition is false: Ok(())
RecvReturn ==
    /\ rPc = "loop"
    /\ ~RecvLoopCond(recv_bytes, rLen)
    /\ rPc' = "ok"
    /\ UNCHANGED <<rBuf, rLen, recv_bytes, rErr, rEintr, rOkCalls, rZeroReads,
                   rTick, rPos, sVars, wVars>>
    /\ UNCHANGED notTransportVars

\* the sending peer, no longer inside send_loop, closes its end
PeerClose ==
    /\ sPc # "loop"
    /\ ~peerClosed
    /\ peerClosed' = TRUE
    /\ UNCHANGED <<wire, sVars, rVars>>
    /\ UNCHANGED notTransportVars

\* recv_loop called with a zeroed buffer of any size and any len up to one
\* past it, on a connection that carries any stream
InitRecv ==
    /\ SendIdle /\ U64Idle /\ ConnectIdle /\ ServerIdle /\ FetchIdle /\ CliIdle
    /\ wire \in SeqsUpTo(ByteVals, MaxLen)
    /\ peerClosed = FALSE
    /\ \E cap \in 0..MaxLen : rBuf = Zeros(cap)
    /\ rLen \in 0..(Len(rBuf) + 1)
    /\ recv_bytes = 0 /\ rPc = "loop" /\ rErr = NoErr
    /\ rEintr = 0 /\ rOkCalls = 0 /\ rZeroReads = 0 /\ rTick = 0 /\ rPos = 0

NextRecv ==
    \/ RecvChunk
    \/ RecvClosed
    \/ RecvEintr
    \/ RecvError
    \/ RecvPanic
    \/ RecvReturn
    \/ PeerClose

SpecRecv == InitRecv /\ [][NextRecv]_vars

\* a blocked recv on a closed, drained connection returns (with 0)
FairSpecRecv == SpecRecv /\ WF_vars(RecvClosed)

(***************************************************************************)
(* send_u64 / recv_u64                                                     *)
(***************************************************************************)
U64Size == 8         \* size_of::<u64>()

\* byte k (0-based) of the limbs in little-endian order: limb k/2, its low
\* byte when k is even and its high byte when k is odd
LimbByte(v, k) ==
    IF k % 2 = 0 THEN v[(k \div 2) + 1] % 256 ELSE v[(k \div 2) + 1] \div 256

\* LittleEndian::write_u64(&mut buf, val) on a buffer of 8 bytes
WriteU64BigEndian(v) == [i \in 1..U64Size |-> LimbByte(v, U64Size - i)]
WriteU64(v) == [i \in 1..U64Size |-> LimbByte(v, i - 1)]

\* LittleEndian::read_u64(&buf)
ReadU64BigEndian(buf) ==
    [j \in 1..4 |-> buf[U64Size - (2 * j - 1)] + 256 * buf[U64Size + 1 - 2 * j]]
ReadU64(buf) == [j \in 1..4 |-> buf[2 * j - 1] + 256 * buf[2 * j]]

\* send_u64: buf = [0u8; 8]; write_u64(&mut buf, val); send_loop(fd, &buf, 8)
SendU64Call ==
    /\ sPc = "idle"
    /\ uSendRes = <<"none">>
    /\ sBuf' = WriteU64(uVal)
    /\ sLen' = U64Size
    /\ send_bytes' = 0
    /\ sPc' = "loop"
    /\ UNCHANGED <<sErr, sEintr, sOkCalls, wVars, rVars, uVars>>
    /\ UNCHANGED notFramingVars

\* send_loop(..)?; Ok(())
SendU64Return ==
    /\ sPc \in {"ok", "err"}
    /\ uSendRes = <<"none">>
    /\ uSendRes' = IF sPc = "ok" THEN <<"Ok">> ELSE <<"Err", sErr>>
    /\ UNCHANGED <<sVars, wVars, rVars, uVal, uRecvRes>>
    /\ UNCHANGED notFramingVars

\* recv_u64: buf = [0u8; 8]; recv_loop(fd, &mut buf, 8)
RecvU64Call ==
    /\ rPc = "idle"
    /\ uRecvRes = <<"none">>
    /\ rBuf' = Zeros(U64Size)
    /\ rLen' = U64Size
    /\ recv_bytes' = 0
    /\ rPc' = "loop"
    /\ UNCHANGED <<rErr, rEintr, rOkCalls, rZeroReads, rTick, rPos, sVars, wVars,
                   uVars>>
    /\ UNCHANGED notFramingVars

\* recv_loop(..)?; Ok(LittleEndian::read_u64(&buf))
RecvU64Return ==
    /\ rPc \in {"ok", "err"}
    /\ uRecvRes = <<"none">>
    /\ uRecvRes' = IF rPc = "ok" THEN <<"Ok", ReadU64(rBuf)>> ELSE <<"Err", rErr>>
    /\ UNCHANGED <<sVars, wVars, rVars, uVal, uSendRes>>
    /\ UNCHANGED notFramingVars

\* the values sent: 0, 1, 2^16-1, 2^32-1, 2^64-1 and 0x0123456789ABCDEF, as limbs
U64Zero == <<0, 0, 0, 0>>
U64Max == <<65535, 65535, 65535, 65535>>
U64Pattern == <<52719, 35243, 17767, 291>>
U64Values ==
    { U64Zero, <<1, 0, 0, 0>>, <<65535, 0, 0, 0>>, <<65535, 65535, 0, 0>>,
      U64Max, U64Pattern }

InitU64 ==
    /\ SendIdle /\ RecvIdle /\ ConnectIdle /\ ServerIdle /\ FetchIdle /\ CliIdle
    /\ wire = <<>> /\ peerClosed = FALSE
    /\ uVal \in U64Values
    /\ uSendRes = <<"none">> /\ uRecvRes = <<"none">>

NextU64 ==
    \/ SendU64Call
    \/ SendPartial
    \/ SendEintr
    \/ SendError
    \/ SendReturn
    \/ SendU64Return
    \/ PeerClose
    \/ RecvU64Call
    \/ RecvChunk
    \/ RecvClosed
    \/ RecvEintr
    \/ RecvError
    \/ RecvReturn
    \/ RecvU64Return

SpecU64 == InitU64 /\ [][NextU64]_vars

(***************************************************************************)
(* vsock_connect and the destructor of VsockSocket                         *)
(***************************************************************************)
MAX_CONNECTION_ATTEMPTS == 5
MaxCalls == 2

ConnectErrnos == {"ECONNREFUSED", "ETIMEDOUT"}
SocketErrnos == {"EMFILE"}

\* for i in 0..MAX_CONNECTION_ATTEMPTS: the body runs while i is in the range
ConnLoopCondInclusive(i) == i <= MAX_CONNECTION_ATTEMPTS
ConnLoopCondShort(i) == i + 1 < MAX_CONNECTION_ATTEMPTS
ConnLoopCond(i) == i < MAX_CONNECTION_ATTEMPTS

\* err_msg = format!("Failed to connect: {}", e)
ErrMsgKeepFirst(old, e) == IF old = <<>> THEN <<"Failed to connect: ", e>> ELSE old
ErrMsgOnConnectFail(old, e) == <<"Failed to connect: ", e>>

\* Duration::from_secs(1 << i)
BackoffSecsLinear(i) == i + 1
BackoffSecs(i) == 2 ^ i

\* close(self.socket_fd) in drop releases the descriptor
FdsAfterCloseLeaked(fds, fd) == fds
FdsAfterClose(fds, fd) == fds \ {fd}

\* socket(..) succeeded: owned_fd.into_raw_fd(), VsockSocket::new(socket_fd)
ConnSocketOk ==
    /\ cPc = "socket"
    /\ ConnLoopCond(cI)
    /\ cFdCount' = cFdCount + 1
    /\ cFd' = cFdCount + 1
    /\ openFds' = openFds \cup {cFdCount + 1}
    /\ cPc' = "connect"
    /\ UNCHANGED <<cI, err_msg, cResult, shutFds, connectedFds, cAttempts,
                   cSleeps, cConnErrs, cSockFailed>>
    /\ UNCHANGED cLastDrop
    /\ UNCHANGED <<cCalls, cPastFails>>
    /\ UNCHANGED notConnectVars

\* where the call goes when socket(..) failed: `?` returns the error
PcAfterSocketFailRetry == "socket"
PcAfterSocketFail == "ret_err"

\* socket(..) failed: map_err(..)? returns at once
ConnSocketFail ==
    /\ cPc = "socket"
    /\ ConnLoopCond(cI)
    /\ \E e \in SocketErrnos :
          cResult' = <<"Err", <<"Failed to create the socket: ", e>>>>
    /\ cSockFailed' = TRUE
    /\ cPc' = PcAfterSocketFail
    /\ UNCHANGED <<cI, cFd, err_msg, openFds, shutFds, connectedFds, cFdCount,
                   cAttempts, cSleeps, cConnErrs>>
    /\ UNCHANGED cLastDrop
    /\ UNCHANGED <<cCalls, cPastFails>>
    /\ UNCHANGED notConnectVars

\* connect(..) is Ok: return Ok(vsocket); the handle moves to the caller
ConnConnectOk ==
    /\ cPc = "connect"
    /\ cAttempts' = cAttempts + 1
    /\ connectedFds' = connectedFds \cup {cFd}
    /\ cResult' = <<"Ok", cFd>>
    /\ cPc' = "ret_ok"
    /\ UNCHANGED <<cI, cFd, err_msg, openFds, shutFds, cFdCount, cSleeps,
                   cConnErrs, cSockFailed>>
    /\ UNCHANGED cLastDrop
    /\ UNCHANGED <<cCalls, cPastFails>>
    /\ UNCHANGED notConnectVars

\* connect(..) is Err(e): err_msg is set and the body goes on to the sleep
ConnConnectFail ==
    /\ cPc = "connect"
    /\ cAttempts' = cAttempts + 1
    /\ \E e \in ConnectErrnos :
          /\ err_msg' = ErrMsgOnConnectFail(err_msg, e)
          /\ cConnErrs' = Append(cConnErrs, e)
    /\ cPc' = "sleep"
    /\ UNCHANGED <<cI, cFd, cResult, openFds, shutFds, connectedFds, cFdCount,
                   cSleeps, cSockFailed>>
    /\ UNCHANGED cLastDrop
    /\ UNCHANGED <<cCalls, cPastFails>>
    /\ UNCHANGED notConnectVars

\* std::thread::sleep(Duration::from_secs(1 << i)); vsocket is still alive
ConnSleep ==
    /\ cPc = "sleep"
    /\ cSleeps' = Append(cSleeps, BackoffSecs(cI))
    /\ cPc' = "shutdown"
    /\ UNCHANGED <<cI, cFd, err_msg, cResult, openFds, shutFds, connectedFds,
                   cFdCount, cAttempts, cConnErrs, cSockFailed>>
    /\ UNCHANGED cLastDrop
    /\ UNCHANGED <<cCalls, cPastFails>>
    /\ UNCHANGED notConnectVars

\* where drop goes after shutdown returned: on to close, whatever the result
\* (unwrap_or_else prints the error)
PcAfterShutdownAbort(ok) == IF ok THEN "close" ELSE "socket"
PcAfterShutdown(ok) == "close"

\* end of the loop body: drop(vsocket) calls shutdown(fd, Both); an error is
\* printed and ignored
ConnDropShutdown ==
    /\ cPc = "shutdown"
    /\ shutFds' = shutFds \cup {cFd}
    /\ \E ok \in BOOLEAN :
          /\ cLastDrop' = <<<<"shutdown", ok>>>>
          /\ cPc' = PcAfterShutdown(ok)
    /\ UNCHANGED <<cI, cFd, err_msg, cResult, openFds, connectedFds, cFdCount,
                   cAttempts, cSleeps, cConnErrs, cSockFailed>>
    /\ UNCHANGED <<cCalls, cPastFails>>
    /\ UNCHANGED notConnectVars

\* drop(vsocket) calls close(fd); an error is printed and ignored (the
\* descriptor is released either way); then the next iteration
ConnDropClose ==
    /\ cPc = "close"
    /\ openFds' = FdsAfterClose(openFds, cFd)
    /\ \E ok \in BOOLEAN : cLastDrop' = Append(cLastDrop, <<"close", ok>>)
    /\ cFd' = 0
    /\ cI' = cI + 1
    /\ cPc' = "socket"
    /\ UNCHANGED <<err_msg, cResult, shutFds, connectedFds, cFdCount, cAttempts,
                   cSleeps, cConnErrs, cSockFailed>>
    /\ UNCHANGED <<cCalls, cPastFails>>
    /\ UNCHANGED notConnectVars

\* the range is exhausted: Err(err_msg)
ConnExhausted ==
    /\ cPc = "socket"
    /\ ~ConnLoopCond(cI)
    /\ cResult' = <<"Err", err_msg>>
    /\ cPc' = "ret_err"
    /\ UNCHANGED <<cI, cFd, err_msg, openFds, shutFds, connectedFds, cFdCount,
                   cAttempts, cSleeps, cConnErrs, cSockFailed>>
    /\ UNCHANGED cLastDrop
    /\ UNCHANGED <<cCalls, cPastFails>>
    /\ UNCHANGED notConnectVars

\* the value of the loop variable when a call starts, whatever value i the
\* call before left: the range 0..MAX_CONNECTION_ATTEMPTS starts at 0
IndexAtCallKept(i) == i
IndexAtCall(i) == 0

\* vsock_connect is called again after a call has returned: err_msg and the
\* range are new, and nothing of the earlier call is read.  A handle that
\* the earlier call returned stays with its caller.
ConnCall ==
    /\ cPc \in {"ret_ok", "ret_err"}
    /\ cCalls < MaxCalls
    /\ cCalls' = cCalls + 1
    /\ cPastFails' = cPastFails + Len(cConnErrs)
    /\ cI' = IndexAtCall(cI)
    /\ err_msg' = <<>>
    /\ cResult' = <<"none">>
    /\ cFd' = 0 /\ openFds' = {} /\ shutFds' = {} /\ connectedFds' = {}
    /\ cFdCount' = 0 /\ cAttempts' = 0 /\ cSleeps' = <<>> /\ cConnErrs' = <<>>
    /\ cSockFailed' = FALSE /\ cLastDrop' = <<>>
    /\ cPc' = "socket"
    /\ UNCHANGED notConnectVars

\* vsock_connect has just been called: err_msg = String::new(), i = 0
InitConnect ==
    /\ SendIdle /\ RecvIdle /\ U64Idle /\ ServerIdle /\ FetchIdle /\ CliIdle
    /\ wire = <<>> /\ peerClosed = FALSE
    /\ cPc = "socket" /\ cI = 0 /\ cFd = 0 /\ err_msg = <<>>
    /\ cResult = <<"none">> /\ openFds = {} /\ shutFds = {}
    /\ connectedFds = {} /\ cFdCount = 0 /\ cAttempts = 0
    /\ cSleeps = <<>> /\ cConnErrs = <<>> /\ cSockFailed = FALSE
    /\ cLastDrop = <<>>
    /\ cCalls = 1 /\ cPastFails = 0

NextConnect ==
    \/ ConnSocketOk
    \/ ConnSocketFail
    \/ ConnConnectOk
    \/ ConnConnectFail
    \/ ConnSleep
    \/ ConnDropShutdown
    \/ ConnDropClose
    \/ ConnExhausted
    \/ ConnCall

SpecConnect == InitConnect /\ [][NextConnect]_vars

(***************************************************************************)
(* server(args) and the server arm of main (lib.rs, main.rs, utils.rs).    *)
(* recv_u64 and recv_loop are taken at the level of their calls, with the  *)
(* outcomes established for them above: Ok with exactly len bytes stored,  *)
(* Err with a recv error, a panic when len > buf.len(), and no return at   *)
(* all when the peer sent too few bytes (blocked while it stays connected, *)
(* reading 0 for ever once it has closed).                                 *)
(***************************************************************************)
BUF_MAX_LEN == 32
MaxConns == 2
ExitCodeErr == 1
ExitCodePanic == 101

\* len.try_into::<usize>() on a 64-bit target always succeeds; the model keeps
\* the value when it fits 16 bits and one value above every buffer otherwise
LenAsUsizeLow(v) == v[1]
LenAsUsize(v) == IF v[2] = 0 /\ v[3] = 0 /\ v[4] = 0 THEN v[1] ELSE 65536

\* PublicKey::from_bytes(&buf): a 32-byte slice that decompresses to a curve
\* point. Which byte strings decompress is a property of the curve; the model
\* marks the strings that do not by the byte BadByte. The all-zero buffer
\* (y = 0) is a point.
BadByte == 255
GoodByte == 7
KeyValid(buf) == Len(buf) = 32 /\ \A i \in 1..Len(buf) : buf[i] # BadByte

\* what a peer puts on an accepted connection: the first prefixLen bytes of a
\* length prefix, then n bytes, and then it closes or stays connected
DeclaredLens == {<<0, 0, 0, 0>>, <<16, 0, 0, 0>>, <<32, 0, 0, 0>>,
                 <<33, 0, 0, 0>>, <<0, 0, 1, 0>>}
PayloadLens == {0, 16, 32, 33}
PrefixLens == {4, U64Size}
PeerStream(declared, prefixLen, n, fill) ==
    SubSeq(WriteU64(declared), 1, prefixLen) \o [i \in 1..n |-> fill]

SrvAvail == Len(vStream) - vPos

PcAfterStartupFailIgnored(step) ==
    IF step = "socket" THEN "bind" ELSE IF step = "bind" THEN "listen" ELSE "accept"
PcAfterStartupFail(step) == "returned"

\* socket(...) at the head of server
SrvSocketOk ==
    /\ vPc = "socket"
    /\ vListenOpen' = TRUE
    /\ vPc' = "bind"
    /\ UNCHANGED <<vResult, vFail, vAcceptCalls, vAccepted, vCompleted, vFd,
                   vOpenFds, vLen, vBuf, vStream, vPeerCloses, vPos, vKeygens,
                   vPeerKey, mExit>>
    /\ UNCHANGED vSent
    /\ UNCHANGED notServerVars

SrvSocketFail ==
    /\ vPc = "socket"
    /\ vFail' = "socket"
    /\ vResult' = <<"Err", "Create socket failed">>
    /\ vPc' = PcAfterStartupFail("socket")
    /\ UNCHANGED <<vListenOpen, vAcceptCalls, vAccepted, vCompleted, vFd,
                   vOpenFds, vLen, vBuf, vStream, vPeerCloses, vPos, vKeygens,
                   vPeerKey, mExit>>
    /\ UNCHANGED vSent
    /\ UNCHANGED notServerVars

SrvBindOk ==
    /\ vPc = "bind"
    /\ vPc' = "listen"
    /\ UNCHANGED <<vResult, vFail, vListenOpen, vAcceptCalls, vAccepted,
                   vCompleted, vFd, vOpenFds, vLen, vBuf, vStream, vPeerCloses,
                   vPos, vKeygens, vPeerKey, mExit>>
    /\ UNCHANGED vSent
    /\ UNCHANGED notServerVars

\* `?` returns and owned_fd is dropped
SrvBindFail ==
    /\ vPc = "bind"
    /\ vFail' = "bind"
    /\ vResult' = <<"Err", "Bind failed">>
    /\ vListenOpen' = FALSE
    /\ vPc' = PcAfterStartupFail("bind")
    /\ UNCHANGED <<vAcceptCalls, vAccepted, vCompleted, vFd, vOpenFds, vLen,
                   vBuf, vStream, vPeerCloses, vPos, vKeygens, vPeerKey, mExit>>
    /\ UNCHANGED vSent
    /\ UNCHANGED notServerVars

SrvListenOk ==
    /\ vPc = "listen"
    /\ vPc' = "accept"
    /\ UNCHANGED <<vResult, vFail, vListenOpen, vAcceptCalls, vAccepted,
                   vCompleted, vFd, vOpenFds, vLen, vBuf, vStream, vPeerCloses,
                   vPos, vKeygens, vPeerKey, mExit>>
    /\ UNCHANGED vSent
    /\ UNCHANGED notServerVars

SrvListenFail ==
    /\ vPc = "listen"
    /\ vFail' = "listen"
    /\ vResult' = <<"Err", "Listen failed">>
    /\ vListenOpen' = FALSE
    /\ vPc' = PcAfterStartupFail("listen")
    /\ UNCHANGED <<vAcceptCalls, vAccepted, vCompleted, vFd, vOpenFds, vLen,
                   vBuf, vStream, vPeerCloses, vPos, vKeygens, vPeerKey, mExit>>
    /\ UNCHANGED vSent
    /\ UNCHANGED notServerVars

PcAfterAcceptSpawn == "accept"
PcAfterAccept == "recv_len"

\* accept(socket_fd) returns the raw descriptor of a new connection
SrvAcceptOk ==
    /\ vPc = "accept"
    /\ vAccepted < MaxConns
    /\ vAcceptCalls' = vAcceptCalls + 1
    /\ vAccepted' = vAccepted + 1
    /\ vFd' = vAccepted + 1
    /\ vOpenFds' = vOpenFds \cup {vAccepted + 1}
    /\ \E declared \in DeclaredLens, prefixLen \in PrefixLens,
          n \in PayloadLens, fill \in {GoodByte, BadByte} :
            vStream' = PeerStream(declared, prefixLen, n, fill)
    /\ vPeerCloses' \in BOOLEAN
    /\ vPos' = 0
    /\ vPc' = PcAfterAccept
    /\ UNCHANGED <<vResult, vFail, vListenOpen, vCompleted, vLen, vBuf,
                   vKeygens, vPeerKey, mExit>>
    /\ UNCHANGED vSent
    /\ UNCHANGED notServerVars

SrvAcceptFail ==
    /\ vPc = "accept"
    /\ vAcceptCalls' = vAcceptCalls + 1
    /\ vFail' = "accept"
    /\ vResult' = <<"Err", "Accept failed">>
    /\ vListenOpen' = FALSE
    /\ vPc' = "returned"
    /\ UNCHANGED <<vAccepted, vCompleted, vFd, vOpenFds, vLen, vBuf, vStream,
                   vPeerCloses, vPos, vKeygens, vPeerKey, mExit>>
    /\ UNCHANGED vSent
    /\ UNCHANGED notServerVars

\* let mut buf = [0u8; BUF_MAX_LEN] in the body of the loop: a new buffer
\* in every iteration, whatever the buffer of the iteration before held
BufAtIterationKept(old) == IF old = <<>> THEN Zeros(BUF_MAX_LEN) ELSE old
BufAtIteration(old) == Zeros(BUF_MAX_LEN)

\* let len = recv_u64(fd)?; let mut buf = [0u8; BUF_MAX_LEN];
SrvRecvLenOk ==
    /\ vPc = "recv_len"
    /\ SrvAvail >= U64Size
    /\ vLen' = LenAsUsize(ReadU64(SubSeq(vStream, vPos + 1, vPos + U64Size)))
    /\ vPos' = vPos + U64Size
    /\ vBuf' = BufAtIteration(vBuf)
    /\ vPc' = "recv_key"
    /\ UNCHANGED <<vResult, vFail, vListenOpen, vAcceptCalls, vAccepted,
                   vCompleted, vFd, vOpenFds, vStream, vPeerCloses, vKeygens,
                   vPeerKey, mExit>>
    /\ UNCHANGED vSent
    /\ UNCHANGED notServerVars

\* recv_u64 returns Err and `?` returns it from server
SrvRecvLenErr ==
    /\ vPc = "recv_len"
    /\ \E e \in RecvErrnos : vResult' = <<"Err", e>>
    /\ vFail' = "recv_len"
    /\ vListenOpen' = FALSE
    /\ vPc' = "returned"
    /\ UNCHANGED <<vAcceptCalls, vAccepted, vCompleted, vFd, vOpenFds, vLen,
                   vBuf, vStream, vPeerCloses, vPos, vKeygens, vPeerKey, mExit>>
    /\ UNCHANGED vSent
    /\ UNCHANGED notServerVars

\* the peer closed before 8 bytes: recv returns 0 on every call of recv_loop
SrvRecvLenSpin ==
    /\ vPc = "recv_len"
    /\ SrvAvail < U64Size /\ vPeerCloses
    /\ vPos' = Len(vStream)
    /\ vPc' = "spin"
    /\ UNCHANGED <<vResult, vFail, vListenOpen, vAcceptCalls, vAccepted,
                   vCompleted, vFd, vOpenFds, vLen, vBuf, vStream, vPeerCloses,
                   vKeygens, vPeerKey, mExit>>
    /\ UNCHANGED vSent
    /\ UNCHANGED notServerVars

\* recv_loop(fd, &mut buf, len)? returning Ok
SrvRecvKeyOk ==
    /\ vPc = "recv_key"
    /\ RecvLoopCond(0, vLen) => SliceInBounds(vBuf, 0, vLen)
    /\ SrvAvail >= vLen
    /\ vBuf' = RecvStore(vBuf, 0, SubSeq(vStream, vPos + 1, vPos + vLen))
    /\ vPos' = vPos + vLen
    /\ vPc' = "keygen"
    /\ UNCHANGED <<vResult, vFail, vListenOpen, vAcceptCalls, vAccepted,
                   vCompleted, vFd, vOpenFds, vLen, vStream, vPeerCloses,
                   vKeygens, vPeerKey, mExit>>
    /\ UNCHANGED vSent
    /\ UNCHANGED notServerVars

SrvRecvKeyErr ==
    /\ vPc = "recv_key"
    /\ RecvLoopCond(0, vLen) /\ SliceInBounds(vBuf, 0, vLen)
    /\ \E e \in RecvErrnos : vResult' = <<"Err", e>>
    /\ vFail' = "recv_key"
    /\ vListenOpen' = FALSE
    /\ vPc' = "returned"
    /\ UNCHANGED <<vAcceptCalls, vAccepted, vCompleted, vFd, vOpenFds, vLen,
                   vBuf, vStream, vPeerCloses, vPos, vKeygens, vPeerKey, mExit>>
    /\ UNCHANGED vSent
    /\ UNCHANGED notServerVars

\* &mut buf[recv_bytes..len] with len > buf.len() panics before any recv
SrvRecvKeyPanic ==
    /\ vPc = "recv_key"
    /\ RecvLoopCond(0, vLen) /\ ~SliceInBounds(vBuf, 0, vLen)
    /\ vFail' = "recv_key"
    /\ vListenOpen' = FALSE
    /\ vPc' = "panicked"
    /\ UNCHANGED <<vResult, vAcceptCalls, vAccepted, vCompleted, vFd, vOpenFds,
                   vLen, vBuf, vStream, vPeerCloses, vPos, vKeygens, vPeerKey,
                   mExit>>
    /\ UNCHANGED vSent
    /\ UNCHANGED notServerVars

SrvRecvKeySpin ==
    /\ vPc = "recv_key"
    /\ SliceInBounds(vBuf, 0, vLen)
    /\ SrvAvail < vLen /\ vPeerCloses
    /\ vBuf' = RecvStore(vBuf, 0, SubSeq(vStream, vPos + 1, Len(vStream)))
    /\ vPos' = Len(vStream)
    /\ vPc' = "spin"
    /\ UNCHANGED <<vResult, vFail, vListenOpen, vAcceptCalls, vAccepted,
                   vCompleted, vFd, vOpenFds, vLen, vStream, vPeerCloses,
                   vKeygens, vPeerKey, mExit>>
    /\ UNCHANGED vSent
    /\ UNCHANGED notServerVars

\* SigningKey::from_bytes(&key_bytes) and its verifying key
SrvKeygen ==
    /\ vPc = "keygen"
    /\ vKeygens' = vKeygens + 1
    /\ vPc' = "parse"
    /\ UNCHANGED <<vResult, vFail, vListenOpen, vAcceptCalls, vAccepted,
                   vCompleted, vFd, vOpenFds, vLen, vBuf, vStream, vPeerCloses,
                   vPos, vPeerKey, mExit>>
    /\ UNCHANGED vSent
    /\ UNCHANGED notServerVars

\* what the loop body writes to fd once the key is parsed: encrypted_1 and
\* encrypted_2 are printed, and no send is made on fd
SentOnConnectionReply(fd, encrypted_1, encrypted_2) == <<<<fd, encrypted_1>>>>
SentOnConnection(fd, encrypted_1, encrypted_2) == <<>>

\* the end of the body of `loop`: the next iteration; there is no break and
\* no return Ok
PcAfterLoopBodyBreak == "returned"
PcAfterLoopBody == "accept"

\* PublicKey::from_bytes(&buf.as_slice()).unwrap() with Ok, the prints, and
\* the end of the loop body: fd is a plain integer and goes out of scope
SrvParseOk ==
    /\ vPc = "parse"
    /\ KeyValid(vBuf)
    /\ vPeerKey' = vBuf
    /\ vCompleted' = vCompleted + 1
    /\ vSent' = vSent \o SentOnConnection(vFd, Zeros(32), Zeros(32))
    /\ vFd' = 0
    /\ vPc' = PcAfterLoopBody
    /\ UNCHANGED <<vResult, vFail, vListenOpen, vAcceptCalls, vAccepted,
                   vOpenFds, vLen, vBuf, vStream, vPeerCloses, vPos, vKeygens,
                   mExit>>
    /\ UNCHANGED notServerVars

\* unwrap() on Err
SrvParsePanic ==
    /\ vPc = "parse"
    /\ ~KeyValid(vBuf)
    /\ vFail' = "key"
    /\ vListenOpen' = FALSE
    /\ vPc' = "panicked"
    /\ UNCHANGED <<vResult, vAcceptCalls, vAccepted, vCompleted, vFd, vOpenFds,
                   vLen, vBuf, vStream, vPeerCloses, vPos, vKeygens, vPeerKey,
                   mExit>>
    /\ UNCHANGED vSent
    /\ UNCHANGED notServerVars

\* server(server_args).ok_or_exit("Server failed to start") on Err
MainExitErr ==
    /\ vPc = "returned"
    /\ mExit' = ExitCodeErr
    /\ vOpenFds' = {}
    /\ vPc' = "exited"
    /\ UNCHANGED <<vResult, vFail, vListenOpen, vAcceptCalls, vAccepted,
                   vCompleted, vFd, vLen, vBuf, vStream, vPeerCloses, vPos,
                   vKeygens, vPeerKey>>
    /\ UNCHANGED vSent
    /\ UNCHANGED notServerVars

\* a panic unwinds through server and main
MainExitPanic ==
    /\ vPc = "panicked"
    /\ mExit' = ExitCodePanic
    /\ vOpenFds' = {}
    /\ vPc' = "exited"
    /\ UNCHANGED <<vResult, vFail, vListenOpen, vAcceptCalls, vAccepted,
                   vCompleted, vFd, vLen, vBuf, vStream, vPeerCloses, vPos,
                   vKeygens, vPeerKey>>
    /\ UNCHANGED vSent
    /\ UNCHANGED notServerVars

\* main has matched the server subcommand and calls server(server_args)
InitServer ==
    /\ SendIdle /\ RecvIdle /\ U64Idle /\ ConnectIdle /\ FetchIdle /\ CliIdle
    /\ wire = <<>> /\ peerClosed = FALSE
    /\ vPc = "socket" /\ vResult = <<"none">> /\ vFail = "none"
    /\ vListenOpen = FALSE /\ vAcceptCalls = 0 /\ vAccepted = 0
    /\ vCompleted = 0 /\ vFd = 0 /\ vOpenFds = {} /\ vLen = 0
    /\ vBuf = <<>> /\ vStream = <<>> /\ vPeerCloses = FALSE /\ vPos = 0
    /\ vKeygens = 0 /\ vPeerKey = <<>> /\ mExit = 0
    /\ vSent = <<>>

NextServer ==
    \/ SrvSocketOk
    \/ SrvSocketFail
    \/ SrvBindOk
    \/ SrvBindFail
    \/ SrvListenOk
    \/ SrvListenFail
    \/ SrvAcceptOk
    \/ SrvAcceptFail
    \/ SrvRecvLenOk
    \/ SrvRecvLenErr
    \/ SrvRecvLenSpin
    \/ SrvRecvKeyOk
    \/ SrvRecvKeyErr
    \/ SrvRecvKeyPanic
    \/ SrvRecvKeySpin
    \/ SrvKeygen
    \/ SrvParseOk
    \/ SrvParsePanic
    \/ MainExitErr
    \/ MainExitPanic

SpecServer == InitServer /\ [][NextServer]_vars

(***************************************************************************)
(* fetch_content(payload), the handler of POST /fetch (lib.rs).  The calls *)
(* into serde_json and recrypt are taken at the level of their results: Ok *)
(* or Err.  A panic of the handler ends the request, not the process: the  *)
(* web framework goes on to the next request.                              *)
(***************************************************************************)
MaxRequests == 2

\* the lengths of a key field of the payload
KeyLens == {31, 32}
Resources == {0, 1, 2}

\* the bodies a request may carry: text that is not a Payload, or a Payload;
\* a public key is given by the length of its x coordinate and by whether
\* (x, y) is a point of the curve
Payloads ==
    [kind : {"payload"}, privLen : KeyLens,
     ownerXLen : KeyLens, ownerOnCurve : BOOLEAN,
     delegXLen : KeyLens, delegOnCurve : BOOLEAN,
     resource : Resources]
Bodies == {[kind |-> "malformed"]} \cup Payloads

\* serde_json::from_str::<Payload>(&payload)
ParsesAsPayload(body) == body.kind = "payload"
\* PrivateKey::new_from_slice(&payload.initial_private_key)
PrivateKeyOk(body) == body.privLen = 32
\* PublicKey::new_from_slice((x, y))
PublicKeyOk(xLen, onCurve) == xLen = 32 /\ onCurve

ParseFailureText == "Failed to parse payload"

PcAfterParseFailFallThrough == "priv"
PcAfterParseFail == "responded"

PcAfterUnwrapErrSkip(next) == next
PcAfterUnwrapErr(next) == "panicked"

\* the statements of fetch_content after the keys are built, in the order of
\* the source: generate_ed25519_key_pair, encrypt, generate_transform_key,
\* transform, and the encoding into the response
PipelineOrderKeyFirst == <<"keypair", "tkey", "encrypt", "transform", "encode">>
PipelineOrder == <<"keypair", "encrypt", "tkey", "transform", "encode">>

\* the statement that follows a statement of the pipeline
StepAfter(step) ==
    PipelineOrder[(CHOOSE i \in 1..(Len(PipelineOrder) - 1) :
                       PipelineOrder[i] = step) + 1]

\* generate_ed25519_key_pair() in the n-th request: a keypair that no other
\* call returns
GenerateKeypairOnce(n) == 1
GenerateKeypair(n) == n

\* the byte string of hardcoded_plaintext(), as one of the values a resource
\* may have
HardcodedMsg == 0

\* hardcoded_plaintext()
hardcoded_plaintext == [tag |-> "Plaintext", msg |-> HardcodedMsg]

\* The results of the recrypt calls are random byte strings.  A result is
\* drawn by a seed; FieldBytes gives every byte field of a value its own two
\* bytes, so that no two fields of one value are equal.
Seeds == {1, 2}
FieldBytes(seed, k) == <<16 * k + seed, 255 - k>>
KeypairPublic(kp) == <<200 + kp, 3>>

\* recrypt.encrypt(&plain_text, &owner_public_key, &signing_keypair): an
\* EncryptedOnceValue; plain and key record what was encrypted and for whom
EncryptResult(plain, pk, kp, s) ==
    [tag |-> "EncryptedOnceValue",
     ephemeral_public_key |-> [x |-> FieldBytes(s, 1), y |-> FieldBytes(s, 2)],
     encrypted_message |-> FieldBytes(s, 3),
     auth_hash |-> FieldBytes(s, 4),
     public_signing_key |-> KeypairPublic(kp),
     signature |-> FieldBytes(s, 5),
     plain |-> plain, key |-> pk]

\* recrypt.generate_transform_key(&initial_private_key, &delegatee_public_key,
\* &signing_keypair)
TransformKeyResult(sk, pk, kp) ==
    [tag |-> "TransformKey", from |-> sk, target |-> pk, signer |-> kp]

\* recrypt.transform(encrypted_val, transform_key, &signing_keypair): the
\* encrypted value with one transform block and a new signature
TransformResult(ev, tk, kp, t) ==
    [tag |-> "TransformedValue",
     ephemeral_public_key |-> ev.ephemeral_public_key,
     encrypted_message |-> ev.encrypted_message,
     auth_hash |-> ev.auth_hash,
     transform_blocks |->
        <<[public_key |-> [x |-> FieldBytes(t, 6), y |-> FieldBytes(t, 7)],
           encrypted_temp_key |-> FieldBytes(t, 8),
           random_transform_public_key |->
               [x |-> FieldBytes(t, 9), y |-> FieldBytes(t, 10)],
           encrypted_random_transform_temp_key |-> FieldBytes(t, 11)]>>,
     public_signing_key |-> KeypairPublic(kp),
     signature |-> FieldBytes(t, 12),
     plain |-> ev.plain, key |-> tk.target]

\* hex::encode
HexDigits == <<"0", "1", "2", "3", "4", "5", "6", "7", "8", "9",
               "a", "b", "c", "d", "e", "f">>
HexEncode(bytes) ==
    [i \in 1..(2 * Len(bytes)) |->
        IF i % 2 = 1 THEN HexDigits[(bytes[(i + 1) \div 2] \div 16) + 1]
                     ELSE HexDigits[(bytes[i \div 2] % 16) + 1]]

ppk_from_public_key_xx(pubkey) == [x |-> pubkey.x, y |-> pubkey.x]
ppk_from_public_key(pubkey) == [x |-> pubkey.x, y |-> pubkey.y]

tfb_from_params_crossed(transform_block) ==
    [public_key |-> ppk_from_public_key(transform_block.public_key),
     encrypted_temp_key |-> transform_block.encrypted_random_transform_temp_key,
     random_transform_public_key |->
         ppk_from_public_key(transform_block.random_transform_public_key),
     encrypted_random_transform_temp_key |->
         transform_block.encrypted_temp_key]
tfb_from_params(transform_block) ==
    [public_key |-> ppk_from_public_key(transform_block.public_key),
     encrypted_temp_key |-> transform_block.encrypted_temp_key,
     random_transform_public_key |->
         ppk_from_public_key(transform_block.random_transform_public_key),
     encrypted_random_transform_temp_key |->
         transform_block.encrypted_random_transform_temp_key]

\* TFO::new()
TFONew ==
    [ephemeral_public_key |-> NoVal, encrypted_message |-> <<>>,
     auth_hash |-> <<>>, transform_blocks |-> NoVal,
     public_signing_key |-> <<>>, ed25519_signature |-> <<>>]

\* the assignments to `to` under if let EncryptedValue::TransformedValue
FillTFO(tv) ==
    IF tv.tag = "TransformedValue"
    THEN [ephemeral_public_key |-> ppk_from_public_key(tv.ephemeral_public_key),
          encrypted_message |-> tv.encrypted_message,
          auth_hash |-> tv.auth_hash,
          transform_blocks |-> tfb_from_params(Head(tv.transform_blocks)),
          public_signing_key |-> tv.public_signing_key,
          ed25519_signature |-> tv.signature]
    ELSE TFONew

\* TransformedObject::default()
TransformedObjectDefault ==
    [ephemeral_public_key |-> [public_key_x |-> <<>>, public_key_y |-> <<>>],
     encrypted_message |-> <<>>, auth_hash |-> <<>>,
     transform_blocks |->
         [public_key |-> [public_key_x |-> <<>>, public_key_y |-> <<>>],
          encrypted_temp_key |-> <<>>,
          encrypted_random_transform_temp_key |-> <<>>,
          random_transform_public_key |->
              [public_key_x |-> <<>>, public_key_y |-> <<>>]],
     public_signing_key |-> <<>>, ed25519_signature |-> <<>>]

trans_response_from_params_swapped(ephemeral_pk, transform_block, transblock, transformed_obj) ==
    [ephemeral_public_key |->
         [public_key_x |-> HexEncode(ephemeral_pk.x),
          public_key_y |-> HexEncode(ephemeral_pk.y)],
     encrypted_message |-> HexEncode(transformed_obj.encrypted_message),
     auth_hash |-> HexEncode(transformed_obj.auth_hash),
     transform_blocks |->
         [public_key |->
              [public_key_x |-> HexEncode(transblock.public_key.x),
               public_key_y |-> HexEncode(transblock.public_key.y)],
          encrypted_temp_key |->
              HexEncode(transblock.encrypted_random_transform_temp_key),
          encrypted_random_transform_temp_key |->
              HexEncode(transblock.encrypted_temp_key),
          random_transform_public_key |->
              [public_key_x |->
                   HexEncode(transform_block.random_transform_public_key.x),
               public_key_y |->
                   HexEncode(transform_block.random_transform_public_key.y)]],
     public_signing_key |-> HexEncode(transformed_obj.public_signing_key),
     ed25519_signature |-> HexEncode(transformed_obj.ed25519_signature)]
trans_response_from_params(ephemeral_pk, transform_block, transblock, transformed_obj) ==
    LET random_transform_pk ==
            ppk_from_public_key(transform_block.random_transform_public_key)
    IN  [ephemeral_public_key |->
             [public_key_x |-> HexEncode(ephemeral_pk.x),
              public_key_y |-> HexEncode(ephemeral_pk.y)],
         encrypted_message |-> HexEncode(transformed_obj.encrypted_message),
         auth_hash |-> HexEncode(transformed_obj.auth_hash),
         transform_blocks |->
             [public_key |->
                  [public_key_x |-> HexEncode(transblock.public_key.x),
                   public_key_y |-> HexEncode(transblock.public_key.y)],
              encrypted_temp_key |-> HexEncode(transblock.encrypted_temp_key),
              encrypted_random_transform_temp_key |->
                  HexEncode(transblock.encrypted_random_transform_temp_key),
              random_transform_public_key |->
                  [public_key_x |-> HexEncode(random_transform_pk.x),
                   public_key_y |-> HexEncode(random_transform_pk.y)]],
         public_signing_key |-> HexEncode(transformed_obj.public_signing_key),
         ed25519_signature |-> HexEncode(transformed_obj.ed25519_signature)]

\* The wire schema of proto::transform (TransformObject, TransformBlock,
\* PublicKey): every field is written as its number, its length and its
\* bytes; a field that is empty or absent is not written.
WriteField(n, content) ==
    IF content = <<>> THEN <<>> ELSE <<n, Len(content)>> \o content
WritePK(pk) ==
    IF pk = NoVal THEN <<>> ELSE WriteField(1, pk.x) \o WriteField(2, pk.y)
WriteTFB(b) ==
    IF b = NoVal THEN <<>>
    ELSE WriteField(1, WritePK(b.public_key))
         \o WriteField(2, b.encrypted_temp_key)
         \o WriteField(3, WritePK(b.random_transform_public_key))
         \o WriteField(4, b.encrypted_random_transform_temp_key)
\* to.write_to_bytes()
WriteToBytes(obj) ==
    WriteField(1, WritePK(obj.ephemeral_public_key))
    \o WriteField(2, obj.encrypted_message)
    \o WriteField(3, obj.auth_hash)
    \o WriteField(4, WriteTFB(obj.transform_blocks))
    \o WriteField(5, obj.public_signing_key)
    \o WriteField(6, obj.ed25519_signature)

\* the content of field n of a written message, <<>> if it has none
RECURSIVE FieldOf(_, _)
FieldOf(bytes, n) ==
    IF Len(bytes) < 2 THEN <<>>
    ELSE IF bytes[1] = n THEN SubSeq(bytes, 3, 2 + bytes[2])
    ELSE FieldOf(SubSeq(bytes, 3 + bytes[2], Len(bytes)), n)

ParsePK(bytes) ==
    IF bytes = <<>> THEN NoVal
    ELSE [x |-> FieldOf(bytes, 1), y |-> FieldOf(bytes, 2)]
ParseTFB(bytes) ==
    IF bytes = <<>> THEN NoVal
    ELSE [public_key |-> ParsePK(FieldOf(bytes, 1)),
          encrypted_temp_key |-> FieldOf(bytes, 2),
          random_transform_public_key |-> ParsePK(FieldOf(bytes, 3)),
          encrypted_random_transform_temp_key |-> FieldOf(bytes, 4)]
\* TFO::parse_from_bytes
ParseFromBytes(bytes) ==
    [ephemeral_public_key |-> ParsePK(FieldOf(bytes, 1)),
     encrypted_message |-> FieldOf(bytes, 2),
     auth_hash |-> FieldOf(bytes, 3),
     transform_blocks |-> ParseTFB(FieldOf(bytes, 4)),
     public_signing_key |-> FieldOf(bytes, 5),
     ed25519_signature |-> FieldOf(bytes, 6)]

\* a request arrives and the handler is called
FetchArrive ==
    /\ fPc \in {"wait", "responded", "panicked"}
    /\ fServed < MaxRequests
    /\ fBody' \in Bodies
    /\ fSteps' = <<>> /\ fFail' = "none" /\ fResponse' = <<"none">>
    /\ fServed' = fServed + 1
    /\ fPc' = "parse"
    /\ signing_keypair' = 0 /\ plain_text' = NoVal /\ encrypted_val' = NoVal
    /\ transform_key' = NoVal /\ transformed_val' = NoVal /\ tfo' = NoVal
    /\ display' = NoVal /\ tfo_bytes' = <<>>
    /\ UNCHANGED notFetchVars

\* the Ok arm of the match on serde_json::from_str
FetchParseOk ==
    /\ fPc = "parse"
    /\ ParsesAsPayload(fBody)
    /\ fSteps' = Append(fSteps, "parse")
    /\ fPc' = "priv"
    /\ UNCHANGED <<fBody, fFail, fResponse, fServed>>
    /\ UNCHANGED pVars
    /\ UNCHANGED notFetchVars

\* the Err arm of the match: return Json(error_response)
FetchParseErr ==
    /\ fPc = "parse"
    /\ ~ParsesAsPayload(fBody)
    /\ fSteps' = Append(fSteps, "parse")
    /\ fFail' = "parse"
    /\ fResponse' = <<"error", ParseFailureText>>
    /\ fPc' = PcAfterParseFail
    /\ UNCHANGED <<fBody, fServed>>
    /\ UNCHANGED pVars
    /\ UNCHANGED notFetchVars

\* PrivateKey::new_from_slice(..).unwrap()
FetchPrivOk ==
    /\ fPc = "priv"
    /\ PrivateKeyOk(fBody)
    /\ fSteps' = Append(fSteps, "priv")
    /\ fPc' = "owner_pk"
    /\ UNCHANGED <<fBody, fFail, fResponse, fServed>>
    /\ UNCHANGED pVars
    /\ UNCHANGED notFetchVars

FetchPrivPanic ==
    /\ fPc = "priv"
    /\ ~PrivateKeyOk(fBody)
    /\ fSteps' = Append(fSteps, "priv")
    /\ fFail' = "priv"
    /\ fPc' = PcAfterUnwrapErr("owner_pk")
    /\ UNCHANGED <<fBody, fResponse, fServed>>
    /\ UNCHANGED pVars
    /\ UNCHANGED notFetchVars

\* PublicKey::new_from_slice(..).unwrap() for the owner
FetchOwnerOk ==
    /\ fPc = "owner_pk"
    /\ PublicKeyOk(fBody.ownerXLen, fBody.ownerOnCurve)
    /\ fSteps' = Append(fSteps, "owner_pk")
    /\ fPc' = "deleg_pk"
    /\ UNCHANGED <<fBody, fFail, fResponse, fServed>>
    /\ UNCHANGED pVars
    /\ UNCHANGED notFetchVars

FetchOwnerPanic ==
    /\ fPc = "owner_pk"
    /\ ~PublicKeyOk(fBody.ownerXLen, fBody.ownerOnCurve)
    /\ fSteps' = Append(fSteps, "owner_pk")
    /\ fFail' = "owner_pk"
    /\ fPc' = PcAfterUnwrapErr("deleg_pk")
    /\ UNCHANGED <<fBody, fResponse, fServed>>
    /\ UNCHANGED pVars
    /\ UNCHANGED notFetchVars

\* PublicKey::new_from_slice(..).unwrap() for the delegatee
FetchDelegOk ==
    /\ fPc = "deleg_pk"
    /\ PublicKeyOk(fBody.delegXLen, fBody.delegOnCurve)
    /\ fSteps' = Append(fSteps, "deleg_pk")
    /\ fPc' = "keypair"
    /\ UNCHANGED <<fBody, fFail, fResponse, fServed>>
    /\ UNCHANGED pVars
    /\ UNCHANGED notFetchVars

FetchDelegPanic ==
    /\ fPc = "deleg_pk"
    /\ ~PublicKeyOk(fBody.delegXLen, fBody.delegOnCurve)
    /\ fSteps' = Append(fSteps, "deleg_pk")
    /\ fFail' = "deleg_pk"
    /\ fPc' = PcAfterUnwrapErr("keypair")
    /\ UNCHANGED <<fBody, fResponse, fServed>>
    /\ UNCHANGED pVars
    /\ UNCHANGED notFetchVars

\* Recrypt::new(), generate_ed25519_key_pair(), hardcoded_plaintext()
FetchKeypair ==
    /\ fPc = "keypair"
    /\ fSteps' = Append(fSteps, "keypair")
    /\ signing_keypair' = GenerateKeypair(fServed)
    /\ plain_text' = hardcoded_plaintext
    /\ display' = TransformedObjectDefault
    /\ fPc' = StepAfter("keypair")
    /\ UNCHANGED <<fBody, fFail, fResponse, fServed>>
    /\ UNCHANGED <<encrypted_val, transform_key, transformed_val, tfo, tfo_bytes>>
    /\ UNCHANGED notFetchVars

\* recrypt.encrypt(..).unwrap()
FetchEncryptOk ==
    /\ fPc = "encrypt"
    /\ fSteps' = Append(fSteps, "encrypt")
    /\ \E s \in Seeds :
          encrypted_val' = EncryptResult(plain_text, "owner_public_key",
                                         signing_keypair, s)
    /\ fPc' = StepAfter("encrypt")
    /\ UNCHANGED <<fBody, fFail, fResponse, fServed>>
    /\ UNCHANGED <<signing_keypair, plain_text, transform_key, transformed_val,
                   tfo, display, tfo_bytes>>
    /\ UNCHANGED notFetchVars

FetchEncryptPanic ==
    /\ fPc = "encrypt"
    /\ fSteps' = Append(fSteps, "encrypt")
    /\ fFail' = "encrypt"
    /\ fPc' = PcAfterUnwrapErr("tkey")
    /\ UNCHANGED <<fBody, fResponse, fServed>>
    /\ UNCHANGED pVars
    /\ UNCHANGED notFetchVars

\* recrypt.generate_transform_key(..).unwrap()
FetchTkeyOk ==
    /\ fPc = "tkey"
    /\ fSteps' = Append(fSteps, "tkey")
    /\ transform_key' = TransformKeyResult("initial_private_key",
                                           "delegatee_public_key",
                                           signing_keypair)
    /\ fPc' = StepAfter("tkey")
    /\ UNCHANGED <<fBody, fFail, fResponse, fServed>>
    /\ UNCHANGED <<signing_keypair, plain_text, encrypted_val, transformed_val,
                   tfo, display, tfo_bytes>>
    /\ UNCHANGED notFetchVars

FetchTkeyPanic ==
    /\ fPc = "tkey"
    /\ fSteps' = Append(fSteps, "tkey")
    /\ fFail' = "tkey"
    /\ fPc' = PcAfterUnwrapErr("transform")
    /\ UNCHANGED <<fBody, fResponse, fServed>>
    /\ UNCHANGED pVars
    /\ UNCHANGED notFetchVars

\* recrypt.transform(..).unwrap()
FetchTransformOk ==
    /\ fPc = "transform"
    /\ fSteps' = Append(fSteps, "transform")
    /\ \E t \in Seeds :
          transformed_val' = TransformResult(encrypted_val, transform_key,
                                             signing_keypair, t)
    /\ fPc' = StepAfter("transform")
    /\ UNCHANGED <<fBody, fFail, fResponse, fServed>>
    /\ UNCHANGED <<signing_keypair, plain_text, encrypted_val, transform_key,
                   tfo, display, tfo_bytes>>
    /\ UNCHANGED notFetchVars

FetchTransformPanic ==
    /\ fPc = "transform"
    /\ fSteps' = Append(fSteps, "transform")
    /\ fFail' = "transform"
    /\ fPc' = PcAfterUnwrapErr("encode")
    /\ UNCHANGED <<fBody, fResponse, fServed>>
    /\ UNCHANGED pVars
    /\ UNCHANGED notFetchVars

\* the TFO is filled, written to bytes, hex-encoded and returned
FetchEncode ==
    /\ fPc = "encode"
    /\ fSteps' = Append(fSteps, "encode")
    /\ tfo' = FillTFO(transformed_val)
    /\ display' =
          IF transformed_val.tag = "TransformedValue"
          THEN trans_response_from_params(
                   transformed_val.ephemeral_public_key,
                   Head(transformed_val.transform_blocks),
                   tfb_from_params(Head(transformed_val.transform_blocks)),
                   tfo')
          ELSE display
    /\ tfo_bytes' = WriteToBytes(tfo')
    /\ fResponse' = <<"object", HexEncode(tfo_bytes')>>
    /\ fPc' = "responded"
    /\ UNCHANGED <<fBody, fFail, fServed>>
    /\ UNCHANGED <<signing_keypair, plain_text, encrypted_val, transform_key,
                   transformed_val>>
    /\ UNCHANGED notFetchVars

\* the web server is up and no request has arrived
InitFetch ==
    /\ SendIdle /\ RecvIdle /\ U64Idle /\ ConnectIdle /\ ServerIdle /\ CliIdle
    /\ wire = <<>> /\ peerClosed = FALSE
    /\ PipeIdle
    /\ fPc = "wait" /\ fBody = NoBody /\ fSteps = <<>> /\ fFail = "none"
    /\ fResponse = <<"none">> /\ fServed = 0

NextFetch ==
    \/ FetchArrive
    \/ FetchParseOk
    \/ FetchParseErr
    \/ FetchPrivOk
    \/ FetchPrivPanic
    \/ FetchOwnerOk
    \/ FetchOwnerPanic
    \/ FetchDelegOk
    \/ FetchDelegPanic
    \/ FetchKeypair
    \/ FetchEncryptOk
    \/ FetchEncryptPanic
    \/ FetchTkeyOk
    \/ FetchTkeyPanic
    \/ FetchTransformOk
    \/ FetchTransformPanic
    \/ FetchEncode

SpecFetch == InitFetch /\ [][NextFetch]_vars

(***************************************************************************)
(* main, ServerArgs::new_with, ClientArgs::new_with and ok_or_exit         *)
(* (main.rs, command_parser.rs, utils.rs).  A u32 is two 16-bit limbs,     *)
(* low limb first.  An argument string is a sequence of characters.        *)
(***************************************************************************)
Absent == <<"absent">>

\* the strings given to --port and --cid
ArgStrings ==
    {<<"8", "0", "8", "0">>, <<"0">>, <<"0", "0", "7">>, <<"+", "5">>,
     <<"6", "5", "5", "3", "6">>,
     <<"4", "2", "9", "4", "9", "6", "7", "2", "9", "5">>,
     <<"4", "2", "9", "4", "9", "6", "7", "2", "9", "6">>,
     <<>>, <<"+">>, <<"-", "1">>, <<"a", "b", "c">>, <<"1", "2", "a">>}

CommandLines ==
    [sub : {"server", "client", "none"},
     port : ArgStrings \cup {Absent},
     cid : ArgStrings \cup {Absent}]

Digits == <<"0", "1", "2", "3", "4", "5", "6", "7", "8", "9">>
IsDigit(c) == \E d \in 1..10 : Digits[d] = c
DigitVal(c) == (CHOOSE d \in 1..10 : Digits[d] = c) - 1

\* result.checked_mul(10) and checked_add(d) on a u32: <<>> on overflow
U32MulAdd(v, d) ==
    LET lo == v[1] * 10 + d
        hi == v[2] * 10 + (lo \div 65536)
    IN  IF hi >= 65536 THEN <<>> ELSE <<lo % 65536, hi>>

RECURSIVE ParseDigits(_, _)
ParseDigits(chars, acc) ==
    IF chars = <<>> THEN <<"Ok", acc>>
    ELSE IF ~IsDigit(Head(chars)) THEN <<"Err", "InvalidDigit">>
    ELSE LET next == U32MulAdd(acc, DigitVal(Head(chars)))
         IN  IF next = <<>> THEN <<"Err", "PosOverflow">>
             ELSE ParseDigits(Tail(chars), next)

\* str::parse::<u32>(): the empty string and a lone sign are errors, one
\* leading "+" is skipped, every other character must be a digit
ParseU32(str) ==
    IF str = <<>> THEN <<"Err", "Empty">>
    ELSE IF str = <<"+">> \/ str = <<"-">> THEN <<"Err", "InvalidDigit">>
    ELSE IF Head(str) = "+" THEN ParseDigits(Tail(str), <<0, 0>>)
    ELSE ParseDigits(str, <<0, 0>>)

parse_port_lenient(args) ==
    IF args.port = Absent THEN <<"Err", "Could not find port argument">>
    ELSE IF ParseU32(args.port)[1] = "Ok" THEN ParseU32(args.port)
    ELSE <<"Ok", <<0, 0>>>>
parse_port(args) ==
    IF args.port = Absent THEN <<"Err", "Could not find port argument">>
    ELSE IF ParseU32(args.port)[1] = "Ok" THEN ParseU32(args.port)
    ELSE <<"Err", "port is not a number">>

parse_cid_client(args) ==
    IF args.cid = Absent THEN <<"Err", "Could not find cid argument">>
    ELSE IF ParseU32(args.cid)[1] = "Ok" THEN ParseU32(args.cid)
    ELSE <<"Err", "cid is not a number">>

ServerArgsNewWith(args) ==
    IF parse_port(args)[1] = "Err" THEN parse_port(args)
    ELSE <<"Ok", [port |-> parse_port(args)[2]]>>

ClientArgsNewWithPortFirst(args) ==
    IF parse_port(args)[1] = "Err" THEN parse_port(args)
    ELSE IF parse_cid_client(args)[1] = "Err" THEN parse_cid_client(args)
    ELSE <<"Ok", [cid |-> parse_cid_client(args)[2],
                  port |-> parse_port(args)[2]]>>
ClientArgsNewWith(args) ==
    IF parse_cid_client(args)[1] = "Err" THEN parse_cid_client(args)
    ELSE IF parse_port(args)[1] = "Err" THEN parse_port(args)
    ELSE <<"Ok", [cid |-> parse_cid_client(args)[2],
                  port |-> parse_port(args)[2]]>>

\* ok_or_exit: whether it returns, the value it returns, the exit code
ok_or_exit_default(result) ==
    [returns |-> TRUE,
     val |-> IF result[1] = "Ok" THEN result[2] ELSE [port |-> <<0, 0>>],
     exit |-> 0]
ok_or_exit(result) ==
    IF result[1] = "Ok"
    THEN [returns |-> TRUE, val |-> result[2], exit |-> 0]
    ELSE [returns |-> FALSE, val |-> <<>>, exit |-> ExitCodeErr]

\* app.get_matches(): clap ends the process with a usage error when there is
\* no subcommand or a required argument is missing
ClapExitCode == 2
ClapAccepts(cmd) ==
    \/ cmd.sub = "server" /\ cmd.port # Absent /\ cmd.cid = Absent
    \/ cmd.sub = "client" /\ cmd.port # Absent /\ cmd.cid # Absent

CliClapExit ==
    /\ aPc = "get_matches"
    /\ ~ClapAccepts(aCmd)
    /\ aExit' = ClapExitCode
    /\ aPc' = "exited"
    /\ UNCHANGED <<aCmd, aResult, aArgs, aStarted>>
    /\ UNCHANGED aPort
    /\ UNCHANGED notCliVars

\* ServerArgs::new_with(sub_matches)
CliServerNewWith ==
    /\ aPc = "get_matches"
    /\ ClapAccepts(aCmd) /\ aCmd.sub = "server"
    /\ aResult' = ServerArgsNewWith(aCmd)
    /\ aPc' = "ok_or_exit"
    /\ UNCHANGED <<aCmd, aArgs, aStarted, aExit>>
    /\ UNCHANGED aPort
    /\ UNCHANGED notCliVars

\* ClientArgs::new_with(sub_matches)
CliClientNewWith ==
    /\ aPc = "get_matches"
    /\ ClapAccepts(aCmd) /\ aCmd.sub = "client"
    /\ aResult' = ClientArgsNewWith(aCmd)
    /\ aPc' = "ok_or_exit"
    /\ UNCHANGED <<aCmd, aArgs, aStarted, aExit>>
    /\ UNCHANGED aPort
    /\ UNCHANGED notCliVars

\* .ok_or_exit("Invalid server arguments") / ("Invalid client arguments"),
\* and on return the call of server(server_args) or client(client_args)
CliOkOrExit ==
    /\ aPc = "ok_or_exit"
    /\ LET r == ok_or_exit(aResult)
       IN  /\ aArgs' = r.val
           /\ aExit' = r.exit
           /\ aStarted' = IF r.returns THEN aCmd.sub ELSE aStarted
           /\ aPc' = IF r.returns THEN "running" ELSE "exited"
    /\ UNCHANGED <<aCmd, aResult>>
    /\ UNCHANGED aPort
    /\ UNCHANGED notCliVars

\* args.port as u16: the low 16 bits of the u32
PortAsU16Saturating(port) == IF port[2] = 0 THEN port[1] ELSE 65535
PortAsU16(port) == port[1]

\* SockaddrIn::new(0, 0, 0, 0, args.port as u16) in server, and
\* Config { port: args.port as u16, .. } in client
CliUsePort ==
    /\ aPc = "running"
    /\ aPort' = PortAsU16(aArgs.port)
    /\ aPc' = "serving"
    /\ UNCHANGED <<aCmd, aResult, aArgs, aStarted, aExit>>
    /\ UNCHANGED notCliVars

\* the process is started with a command line
InitCli ==
    /\ SendIdle /\ RecvIdle /\ U64Idle /\ ConnectIdle /\ ServerIdle /\ FetchIdle
    /\ wire = <<>> /\ peerClosed = FALSE
    /\ aCmd \in CommandLines
    /\ aPc = "get_matches" /\ aResult = <<"none">> /\ aArgs = <<>>
    /\ aStarted = "none" /\ aExit = 0 /\ aPort = NoPort

NextCli ==
    \/ CliClapExit
    \/ CliServerNewWith
    \/ CliClientNewWith
    \/ CliOkOrExit
    \/ CliUsePort

SpecCli == InitCli /\ [][NextCli]_vars

(***************************************************************************)
(* The program as a whole: any one of the components is started.           *)
(***************************************************************************)
Init == InitSend \/ InitRecv \/ InitU64 \/ InitConnect \/ InitServer
           \/ InitFetch \/ InitCli

Next == NextSend \/ NextRecv \/ NextU64 \/ NextConnect \/ NextServer
           \/ NextFetch \/ NextCli

Spec == Init /\ [][Next]_vars

(***************************************************************************)
(* Claims about the framed transport                                       *)
(***************************************************************************)

\* C1: send_loop is all-or-error. At every point the socket has been handed
\* exactly the first send_bytes bytes of buf, in order and once each; it
\* returns Ok only when that prefix is buf[0..len], and it returns Err only
\* with the text of a send error; with len > buf.len() it never returns Ok.
C1_SendAllOrError ==
    /\ sPc \in {"loop", "ok", "err"} /\ sLen <= Len(sBuf)
          => wire = SubSeq(sBuf, 1, send_bytes) /\ send_bytes <= sLen
    /\ sPc = "ok" => /\ sLen <= Len(sBuf)
                     /\ send_bytes = sLen
                     /\ wire = SubSeq(sBuf, 1, sLen)
                     /\ sErr = NoErr
    /\ sPc = "err" => sErr \in SendErrnos

\* a send of 3 bytes completed in several partial sends with an EINTR between
C1_Witness ==
    sPc = "ok" /\ sLen = 3 /\ sOkCalls >= 2 /\ sEintr >= 1 /\ Len(wire) = 3

\* C2: if the peer closes before len bytes have arrived, recv_loop
\* eventually returns an error.
C2_ClosedPeerSurfaces ==
    (rPc = "loop" /\ peerClosed /\ rPos = Len(wire) /\ recv_bytes < rLen
        /\ rLen <= Len(rBuf))
    ~> (rPc = "err")

\* C3: when recv_loop returns Ok, buf[0..len] is the first len bytes of the
\* stream, exactly len bytes were consumed, and the rest of buf is untouched;
\* while it runs, buf[0..recv_bytes] is the consumed prefix of the stream.
C3_RecvExact ==
    /\ rPc \in {"loop", "ok", "err"} /\ rLen <= Len(rBuf)
          => /\ recv_bytes = rPos
             /\ SubSeq(rBuf, 1, recv_bytes) = SubSeq(wire, 1, rPos)
             /\ \A i \in (recv_bytes + 1)..Len(rBuf) : rBuf[i] = 0
    /\ rPc = "ok" => /\ rLen <= Len(rBuf)
                     /\ rPos = rLen
                     /\ SubSeq(rBuf, 1, rLen) = SubSeq(wire, 1, rLen)

\* 3 bytes received in several chunks with an EINTR between
C3_Witness ==
    rPc = "ok" /\ rLen = 3 /\ rOkCalls >= 2 /\ rEintr >= 1 /\ rPos = 3

\* v >> 8 on the limbs, and v >> (8 * k)
U64Shr8(v) ==
    [j \in 1..4 |-> (v[j] \div 256) + 256 * (IF j < 4 THEN v[j + 1] % 256 ELSE 0)]
RECURSIVE U64ShrBytes(_, _)
U64ShrBytes(v, k) == IF k = 0 THEN v ELSE U64ShrBytes(U64Shr8(v), k - 1)

\* C4: framing round-trip: the value recv_u64 returns is the value given to
\* send_u64, whatever the chunking of the 8 bytes on either side.
C4_U64RoundTrip ==
    uRecvRes[1] = "Ok" => uRecvRes[2] = uVal

\* 2^64-1 and the asymmetric 0x0123456789ABCDEF both arrive, in several chunks
C4_Witness ==
    /\ uRecvRes = <<"Ok", U64Pattern>>
    /\ sOkCalls >= 2 /\ rOkCalls >= 2

\* C5: the prefix on the wire is 8 bytes, byte i being (v >> 8i) mod 256;
\* 0x0123456789ABCDEF goes out as EF CD AB 89 67 45 23 01.
C5_LittleEndianWire ==
    /\ \A i \in 1..Len(wire) : wire[i] = U64ShrBytes(uVal, i - 1)[1] % 256
    /\ Len(wire) <= 8
    /\ uSendRes = <<"Ok">> => Len(wire) = 8
    /\ uSendRes = <<"Ok">> /\ uVal = U64Pattern
          => wire = <<239, 205, 171, 137, 103, 69, 35, 1>>

C5_Witness ==
    uSendRes = <<"Ok">> /\ uVal = U64Pattern /\ Len(wire) = 8 /\ sOkCalls >= 2

C30_OversizedLenIsErr ==
    /\ sLen > Len(sBuf) /\ sPc # "loop" => sPc = "err"
    /\ rLen > Len(rBuf) /\ rPc # "loop" => rPc = "err"

(***************************************************************************)
(* Claims about the channel connector                                      *)
(***************************************************************************)
RECURSIVE SumSeq(_)
SumSeq(q) == IF q = <<>> THEN 0 ELSE Head(q) + SumSeq(Tail(q))

ConnReturned == cPc \in {"ret_ok", "ret_err"}

\* C6: one call makes at most 5 connect attempts, at most one of them
\* succeeds, and the call returns the handle of that attempt: it is the last
\* attempt made, all earlier ones failed, it is still open, and no sleep
\* follows it.
C6_FirstSuccessAtMostFive ==
    /\ cAttempts <= 5
    /\ Cardinality(connectedFds) <= 1
    /\ connectedFds # {} => cPc = "ret_ok"
    /\ cPc = "ret_ok" => /\ cResult[1] = "Ok"
                         /\ connectedFds = {cResult[2]}
                         /\ cResult[2] \in openFds
                         /\ cResult[2] \notin shutFds
                         /\ cAttempts = Len(cConnErrs) + 1
                         /\ Len(cSleeps) = Len(cConnErrs)

\* the third attempt succeeds after two failures
C6_Witness ==
    cPc = "ret_ok" /\ cAttempts = 3 /\ cResult = <<"Ok", 3>> /\ Len(cSleeps) = 2

\* C7: sleeps follow failed connects only, one per failure, and the sleep
\* after the k-th failure lasts 2^(k-1) seconds: 1, 2, 4, 8, 16.
C7_BackoffSchedule ==
    /\ cSleeps = SubSeq(<<1, 2, 4, 8, 16>>, 1, Len(cSleeps))
    /\ Len(cSleeps) = IF cPc = "sleep" THEN Len(cConnErrs) - 1 ELSE Len(cConnErrs)
    /\ Len(cConnErrs) = 5 /\ cPc # "sleep" => cSleeps = <<1, 2, 4, 8, 16>>

C7_Witness ==
    cSleeps = <<1, 2, 4, 8, 16>> /\ Len(cConnErrs) = 5

\* C8: when every connect fails (and every socket is created), the call
\* makes exactly 5 attempts, has slept 31 seconds in all when it returns, and
\* returns an error; until it has returned it can always take its next step.
C8_UnreachableEndpoint ==
    /\ cPc = "ret_err" /\ ~cSockFailed
          => /\ cAttempts = 5
             /\ Len(cConnErrs) = 5
             /\ SumSeq(cSleeps) = 31
             /\ cResult[1] = "Err"
    /\ cPc = "ret_ok" => connectedFds # {}
    /\ ~ConnReturned => ENABLED NextConnect

C8_Witness ==
    cPc = "ret_err" /\ ~cSockFailed /\ cAttempts = 5 /\ SumSeq(cSleeps) = 31

\* C9: the error returned after the attempts are exhausted carries the text
\* of the last (5th) failed connect.
C9_LastErrorText ==
    cPc = "ret_err" /\ ~cSockFailed
       => /\ cResult = <<"Err", <<"Failed to connect: ", cConnErrs[Len(cConnErrs)]>>>>
          /\ Len(cConnErrs) = 5

\* the last failure differs from the first one
C9_Witness ==
    /\ cPc = "ret_err" /\ ~cSockFailed
    /\ cConnErrs = <<"ECONNREFUSED", "ECONNREFUSED", "ECONNREFUSED",
                     "ECONNREFUSED", "ETIMEDOUT">>
    /\ cResult = <<"Err", <<"Failed to connect: ", "ETIMEDOUT">>>>

\* C10: at most one socket of the call is open at any point, none is open
\* when the next socket is created or when the call returns an error, and
\* every socket that was closed had been shut down.
C10_NoDescriptorLeak ==
    /\ Cardinality(openFds) <= 1
    /\ cPc = "socket" => openFds = {}
    /\ cPc = "ret_err" => openFds = {}
    /\ \A fd \in 1..cFdCount : fd \notin openFds => fd \in shutFds

\* five sockets were created and all are closed at the error return
C10_Witness ==
    cPc = "ret_err" /\ cFdCount = 5 /\ openFds = {} /\ shutFds = 1..5

\* C11: teardown of a VsockSocket calls shutdown first and close second, close
\* also after a failed shutdown, and neither failure ends the call or becomes
\* its result: after the drop the loop is at its next iteration.
C11_TeardownOrder ==
    /\ Len(cLastDrop) <= 2
    /\ Len(cLastDrop) >= 1 => cLastDrop[1][1] = "shutdown"
    /\ Len(cLastDrop) = 2 => cLastDrop[2][1] = "close"
    /\ cPc = "close" => Len(cLastDrop) = 1
    /\ cPc \in {"socket", "connect", "sleep", "ret_ok", "ret_err"} /\ cI > 0
          => Len(cLastDrop) = 2
    /\ cPc = "socket" /\ cI > 0 => cResult = <<"none">> /\ cFd = 0
    /\ cPc = "ret_err" /\ ~cSockFailed => cResult = <<"Err", err_msg>>

\* a drop in which shutdown and close both failed, and the loop went on
C11_Witness ==
    /\ cLastDrop = <<<<"shutdown", FALSE>>, <<"close", FALSE>>>>
    /\ cPc = "connect" /\ cI = 1

\* C34: retry and backoff state is local to one call. In every call, also
\* after calls in which connects failed, the loop variable counts the
\* attempts of this call only, an attempt is available until this call has
\* made 5, the first sleep of the call lasts 1 second, no error text of an
\* earlier call is held, and a call that runs out of attempts has made 5.
C34_RetryStateLocal ==
    /\ cPc = "socket" => cI = cAttempts /\ Len(cSleeps) = cAttempts
    /\ cPc = "socket" /\ cAttempts < 5 => ENABLED ConnSocketOk
    /\ cPc = "socket" /\ cAttempts = 0 => err_msg = <<>>
    /\ cSleeps # <<>> => cSleeps[1] = 1
    /\ cPc = "ret_err" /\ ~cSockFailed
          => cAttempts = 5 /\ cSleeps = <<1, 2, 4, 8, 16>>

\* a second call uses five attempts after a first call in which five failed
C34_Witness ==
    /\ cCalls = 2 /\ cPastFails = 5
    /\ cPc = "ret_err" /\ ~cSockFailed
    /\ cAttempts = 5 /\ cSleeps = <<1, 2, 4, 8, 16>>

\* C38: a failure to create the socket is not retried. Once socket() has
\* failed the call has returned that error; it made no attempt after the
\* failure, slept only after the connects that failed before it, and none
\* of its sockets is open.
C38_SocketFailureNotRetried ==
    cSockFailed
        => /\ cPc = "ret_err"
           /\ cResult[1] = "Err"
           /\ cResult[2][1] = "Failed to create the socket: "
           /\ cAttempts = cI /\ cFdCount = cI
           /\ Len(cConnErrs) = cI /\ Len(cSleeps) = cI
           /\ openFds = {} /\ cFd = 0
           /\ ~ENABLED ConnSocketOk /\ ~ENABLED ConnSleep

\* socket() fails at the third iteration, after two failed connects
C38_Witness ==
    /\ cSockFailed /\ cPc = "ret_err"
    /\ cI = 2 /\ cSleeps = <<1, 2>> /\ cFdCount = 2 /\ shutFds = {1, 2}

(***************************************************************************)
(* Claims about the listener                                               *)
(***************************************************************************)

\* C12: a failure while one accepted connection is handled (a recv error on
\* the length prefix or on the payload, a malformed key) drops only that
\* connection: server has not returned or panicked, the listening socket is
\* open and the process runs.
C12_FailureDropsOnlyConnection ==
    vFail \in {"recv_len", "recv_key", "key"}
        => /\ vPc \notin {"returned", "panicked", "exited"}
           /\ vListenOpen
           /\ mExit = 0

\* C13: the listener is strictly sequential. The k-th call of accept comes
\* after k - 1 connections were processed to the end of the loop body (length
\* prefix read, payload read, signing key generated); at most one accepted
\* connection is in processing; and while the peer of that connection stalls
\* mid-frame no accept is possible.
C13_StrictlySequential ==
    /\ vAcceptCalls <= vCompleted + 1
    /\ vAccepted - vCompleted \in {0, 1}
    /\ vPc = "accept" => vAccepted = vCompleted /\ vFd = 0
    /\ vPc \in {"recv_len", "recv_key", "keygen", "parse", "spin"}
          => vAccepted = vCompleted + 1 /\ vFd = vAccepted
    /\ vKeygens >= vCompleted
    /\ vCompleted > 0 /\ vPc = "accept" => vPos = U64Size + vLen
    /\ /\ \/ vPc = "recv_len" /\ SrvAvail < U64Size
          \/ vPc = "recv_key" /\ SrvAvail < vLen /\ SliceInBounds(vBuf, 0, vLen)
       /\ ~vPeerCloses
       => ~ENABLED SrvAcceptOk /\ ~ENABLED SrvAcceptFail

C13_Witness ==
    /\ vAccepted = 2 /\ vCompleted = 1
    /\ vPc = "recv_key" /\ ~vPeerCloses /\ SrvAvail < vLen
    /\ SliceInBounds(vBuf, 0, vLen)

\* C14: every descriptor accept returned is closed at the end of the
\* processing of its connection: no accepted descriptor other than the one in
\* processing is open.
C14_AcceptedHandlesDestroyed == vOpenFds \ {vFd} = {}

\* C15: a decoded length prefix above BUF_MAX_LEN never crashes the server.
C15_OversizedFrameRejected ==
    ~(vLen > BUF_MAX_LEN /\ vFail = "recv_key" /\ vPc \in {"panicked", "exited"})

\* C16: a key blob whose declared length is not 32, or whose bytes are not a
\* valid key, is never taken as the peer's public key and never makes the
\* process fail: an iteration that reached its end had a frame of 32 bytes,
\* and no panic comes from the parse of the key.
C16_KeyFormatErrorValue ==
    /\ vPc = "accept" /\ vCompleted > 0 => vLen = 32
    /\ ~(vFail = "key" /\ vPc \in {"panicked", "exited"})

\* C17: startup failures are fatal. After socket, bind or listen failed,
\* accept was never called, server returned Err, the listening socket is
\* not open, the only step left is the exit of the process, and the exit
\* code is 1.
C17_StartupFailuresFatal ==
    vFail \in {"socket", "bind", "listen"}
        => /\ vAcceptCalls = 0 /\ vAccepted = 0
           /\ vPc \in {"returned", "exited"}
           /\ vResult[1] = "Err"
           /\ ~vListenOpen
           /\ vPc = "returned" => ENABLED MainExitErr /\ ~ENABLED SrvAcceptOk
           /\ vPc = "exited" => mExit = ExitCodeErr

C17_Witness ==
    /\ vFail = "bind" /\ vPc = "exited" /\ mExit = 1
    /\ vResult = <<"Err", "Bind failed">>

\* the value of an 8-byte little-endian prefix, 65536 standing for every
\* value above 65535
DecodedPrefix(bytes) ==
    IF \A i \in 3..8 : bytes[i] = 0 THEN bytes[1] + 256 * bytes[2] ELSE 65536

\* C28: within one connection the frame is processed in order. No payload
\* byte is read before the 8 bytes of the prefix were received; the number
\* of payload bytes requested is the decoded prefix; and a signing key is
\* generated for the connection only after the whole payload was received
\* into the buffer.
C28_FrameInOrder ==
    /\ vPc \in {"recv_key", "keygen", "parse"}
          => /\ vPos >= U64Size
             /\ vLen = DecodedPrefix(SubSeq(vStream, 1, U64Size))
    /\ vPc = "recv_key" => vPos = U64Size /\ vBuf = Zeros(BUF_MAX_LEN)
    /\ vPc = "recv_len" => vPos = 0
    /\ vKeygens \in {vCompleted, vCompleted + 1}
    /\ vPc \in {"recv_len", "recv_key", "keygen"} => vKeygens = vCompleted
    /\ vPc = "keygen" \/ vKeygens > vCompleted
          => /\ vPos = U64Size + vLen
             /\ \A i \in 1..vLen : vBuf[i] = vStream[U64Size + i]

C28_Witness ==
    /\ vPc = "parse" /\ vLen = 16 /\ vKeygens = 2 /\ vCompleted = 1
    /\ vBuf[16] = GoodByte /\ vBuf[17] = 0

\* C35: the listener loop has no normal exit. server never returns Ok: when
\* it has returned, it returned the error of a call that failed; an
\* iteration that reaches its end is followed by the next accept; and as
\* long as no call has failed the server is inside the loop or on its way
\* to it.
C35_NoNormalExit ==
    /\ vResult[1] \in {"none", "Err"}
    /\ vPc \in {"returned", "exited"} /\ vResult # <<"none">>
          => /\ vResult[1] = "Err"
             /\ vFail \in {"socket", "bind", "listen", "accept", "recv_len",
                           "recv_key"}
    /\ vPc = "returned" => vResult[1] = "Err"
    /\ vFail = "none" => vPc \notin {"returned", "panicked", "exited"}
    /\ vPc = "accept" => ENABLED SrvAcceptFail
    /\ vPc = "accept" /\ vAccepted < MaxConns => ENABLED SrvAcceptOk

\* two iterations reached their end and the server is at accept again
C35_Witness ==
    /\ vCompleted = 2 /\ vPc = "accept" /\ vFail = "none"
    /\ vResult = <<"none">> /\ vListenOpen

\* C36: the server never writes to an accepted connection: whatever the
\* outcome of an iteration, nothing has been sent on any accepted
\* descriptor.
C36_NoReplyFrame == vSent = <<>>

\* a connection was handled to the end, a later one failed, nothing was sent
C36_Witness ==
    /\ vCompleted = 1 /\ vAccepted = 2 /\ vFail = "key" /\ vPc = "panicked"
    /\ vSent = <<>>

\* C39: the key buffer is fresh per connection. When the payload of a
\* connection is about to be read the buffer is all zero; the bytes that are
\* parsed as the key are the len payload bytes of this connection followed
\* by zeros.
C39_BufferFreshPerConnection ==
    /\ vPc = "recv_key" => vBuf = [i \in 1..32 |-> 0]
    /\ vPc \in {"keygen", "parse"}
          => /\ Len(vBuf) = 32
             /\ \A i \in 1..32 :
                   vBuf[i] = IF i <= vLen THEN vStream[8 + i] ELSE 0
    /\ vPc = "accept" /\ vCompleted > 0
          => /\ Len(vPeerKey) = 32
             /\ \A i \in 1..32 :
                   vPeerKey[i] = IF i <= vLen THEN vStream[8 + i] ELSE 0

\* a 16-byte key is parsed on the second connection, after a 32-byte key on
\* the first
C39_Witness ==
    /\ vAccepted = 2 /\ vCompleted = 2 /\ vPc = "accept"
    /\ vLen = 16
    /\ vPeerKey = [i \in 1..32 |-> IF i <= 16 THEN 7 ELSE 0]

(***************************************************************************)
(* Claims about the /fetch handler                                         *)
(***************************************************************************)

C19_MalformedKeyErrorResponse ==
    fFail \in {"priv", "owner_pk", "deleg_pk"}
        => fPc = "responded" /\ fResponse[1] = "error"

\* C20: a request whose body does not parse as a Payload is answered with the
\* error payload carrying the parse-failure message, and parsing is the only
\* call the handler made: no key was constructed and no cryptographic step
\* was run.
C20_ParseFailureEarlyReturn ==
    /\ fFail = "parse"
          => /\ fPc = "responded"
             /\ fResponse = <<"error", ParseFailureText>>
             /\ fSteps = <<"parse">>
    /\ fPc \notin {"idle", "wait", "parse"} /\ ~ParsesAsPayload(fBody)
          => fFail = "parse"

C20_Witness ==
    /\ fFail = "parse" /\ fPc = "responded" /\ fServed = 1
    /\ fResponse = <<"error", "Failed to parse payload">>

\* C22: the plaintext the pipeline encrypts in a request is the plaintext
\* supplied with the request, the payload's resource.
C22_EncryptsSuppliedPlaintext ==
    encrypted_val # NoVal => encrypted_val.plain.msg = fBody.resource

\* the structural fields of a TransformedValue, named as the wire object
\* names them, with all its transform blocks
StructuralFields(tv) ==
    [ephemeral_public_key |-> tv.ephemeral_public_key,
     encrypted_message |-> tv.encrypted_message,
     auth_hash |-> tv.auth_hash,
     transform_blocks |-> tv.transform_blocks,
     public_signing_key |-> tv.public_signing_key,
     ed25519_signature |-> tv.signature]

\* the value a parsed wire object stands for
ValueOfWire(d) ==
    [d EXCEPT !.transform_blocks =
        IF d.transform_blocks = NoVal THEN <<>> ELSE <<d.transform_blocks>>]

\* C23: encoder round trip. Parsing the bytes written for a TransformedValue
\* gives back every structural field of the value: both coordinates of the
\* ephemeral key, the encrypted message, the auth hash, every transform
\* block with its four fields, the public signing key and the signature.
C23_EncoderRoundTrip ==
    fPc = "responded" /\ fResponse[1] = "object"
        => /\ transformed_val.tag = "TransformedValue"
           /\ ValueOfWire(ParseFromBytes(tfo_bytes))
                 = StructuralFields(transformed_val)
           /\ fResponse[2] = HexEncode(tfo_bytes)

C23_Witness ==
    /\ fPc = "responded" /\ fResponse[1] = "object"
    /\ transformed_val.ephemeral_public_key
          = [x |-> <<17, 254>>, y |-> <<33, 253>>]
    /\ transformed_val.transform_blocks[1].random_transform_public_key
          = [x |-> <<146, 246>>, y |-> <<162, 245>>]
    /\ Len(tfo_bytes) = 56

\* C24: the display record agrees with the wire object. Every string of the
\* TransformedObject is the hex encoding of the corresponding byte field of
\* the TFO built from the same value, both coordinates of the three public
\* keys included.
C24_DisplayAgreesWithWire ==
    fPc = "responded" /\ fResponse[1] = "object"
        => /\ display.ephemeral_public_key
                 = [public_key_x |-> HexEncode(tfo.ephemeral_public_key.x),
                    public_key_y |-> HexEncode(tfo.ephemeral_public_key.y)]
           /\ display.encrypted_message = HexEncode(tfo.encrypted_message)
           /\ display.auth_hash = HexEncode(tfo.auth_hash)
           /\ display.transform_blocks.public_key
                 = [public_key_x |-> HexEncode(tfo.transform_blocks.public_key.x),
                    public_key_y |-> HexEncode(tfo.transform_blocks.public_key.y)]
           /\ display.transform_blocks.encrypted_temp_key
                 = HexEncode(tfo.transform_blocks.encrypted_temp_key)
           /\ display.transform_blocks.random_transform_public_key
                 = [public_key_x |->
                        HexEncode(tfo.transform_blocks.random_transform_public_key.x),
                    public_key_y |->
                        HexEncode(tfo.transform_blocks.random_transform_public_key.y)]
           /\ display.transform_blocks.encrypted_random_transform_temp_key
                 = HexEncode(tfo.transform_blocks.encrypted_random_transform_temp_key)
           /\ display.public_signing_key = HexEncode(tfo.public_signing_key)
           /\ display.ed25519_signature = HexEncode(tfo.ed25519_signature)

C24_Witness ==
    /\ fPc = "responded" /\ fResponse[1] = "object"
    /\ tfo.transform_blocks.encrypted_temp_key = <<130, 247>>
    /\ display.transform_blocks.encrypted_temp_key = <<"8", "2", "f", "7">>
    /\ display.ephemeral_public_key.public_key_y = <<"2", "2", "f", "d">>

\* C31: the pipeline is linear. In every request that completes, the steps
\* ran exactly once each in the order keypair, Encrypt, DeriveTransformKey,
\* Transform, encode; Transform consumed the outputs of Encrypt and of
\* DeriveTransformKey of the same request; no step is repeated in any
\* request.
C31_PipelineLinear ==
    /\ \A i, j \in 1..Len(fSteps) : i < j => fSteps[i] # fSteps[j]
    /\ fPc = "responded" /\ fResponse[1] = "object"
          => /\ fSteps = <<"parse", "priv", "owner_pk", "deleg_pk", "keypair",
                           "encrypt", "tkey", "transform", "encode">>
             /\ encrypted_val # NoVal /\ transform_key # NoVal
             /\ encrypted_val.public_signing_key
                   = KeypairPublic(signing_keypair)
             /\ transform_key.signer = signing_keypair
             /\ \E t \in Seeds :
                   transformed_val = TransformResult(encrypted_val,
                                         transform_key, signing_keypair, t)

C31_Witness ==
    /\ fPc = "responded" /\ fResponse[1] = "object"
    /\ fServed = 2
    /\ fSteps[6] = "encrypt" /\ fSteps[9] = "encode"
    /\ transformed_val.encrypted_message = encrypted_val.encrypted_message

\* the number of times a step is in a step log
CountStep(steps, step) == Cardinality({i \in 1..Len(steps) : steps[i] = step})

\* C32: one signing keypair is generated per request, and that keypair is
\* the one passed to Encrypt, to DeriveTransformKey and to Transform of the
\* request; a request starts without a keypair, and the keypair of a request
\* is not the keypair of another request.
C32_OneKeypairPerRequest ==
    /\ CountStep(fSteps, "keypair") <= 1
    /\ CountStep(fSteps, "keypair") = 0 => signing_keypair = 0
    /\ CountStep(fSteps, "keypair") = 1 => signing_keypair = fServed
    /\ encrypted_val # NoVal
          => encrypted_val.public_signing_key = KeypairPublic(fServed)
    /\ transform_key # NoVal => transform_key.signer = fServed
    /\ transformed_val # NoVal
          => transformed_val.public_signing_key = KeypairPublic(fServed)

C32_Witness ==
    /\ fServed = 2
    /\ signing_keypair = 2
    /\ transformed_val # NoVal
    /\ transformed_val.public_signing_key = <<202, 3>>
    /\ transform_key.signer = 2

\* C33: single hop. The value that is encoded is a TransformedValue with
\* exactly one transform block, one more than the freshly encrypted value,
\* and the block of the binary encoding and of the display encoding is that
\* block.
C33_SingleHop ==
    fPc = "responded" /\ fResponse[1] = "object"
        => /\ encrypted_val.tag = "EncryptedOnceValue"
           /\ transformed_val.tag = "TransformedValue"
           /\ Len(transformed_val.transform_blocks) = 1
           /\ LET b == transformed_val.transform_blocks[1]
                  w == ParseFromBytes(tfo_bytes).transform_blocks
                  d == display.transform_blocks
              IN  /\ w = b
                  /\ d.public_key.public_key_x = HexEncode(b.public_key.x)
                  /\ d.public_key.public_key_y = HexEncode(b.public_key.y)
                  /\ d.encrypted_temp_key = HexEncode(b.encrypted_temp_key)
                  /\ d.random_transform_public_key.public_key_x
                        = HexEncode(b.random_transform_public_key.x)
                  /\ d.random_transform_public_key.public_key_y
                        = HexEncode(b.random_transform_public_key.y)
                  /\ d.encrypted_random_transform_temp_key
                        = HexEncode(b.encrypted_random_transform_temp_key)

C33_Witness ==
    /\ fPc = "responded" /\ fResponse[1] = "object"
    /\ Len(transformed_val.transform_blocks) = 1
    /\ transformed_val.transform_blocks[1].encrypted_random_transform_temp_key
          = <<178, 244>>
    /\ display.transform_blocks.encrypted_random_transform_temp_key
          = <<"b", "2", "f", "4">>

(***************************************************************************)
(* Claims about the command line                                           *)
(***************************************************************************)

\* the argument strings that are decimal u32 numbers (digits, with an
\* optional leading "+"), each with its value
NumberTable ==
    {<<<<"8", "0", "8", "0">>, <<8080, 0>>>>,
     <<<<"0">>, <<0, 0>>>>,
     <<<<"0", "0", "7">>, <<7, 0>>>>,
     <<<<"+", "5">>, <<5, 0>>>>,
     <<<<"6", "5", "5", "3", "6">>, <<0, 1>>>>,
     <<<<"4", "2", "9", "4", "9", "6", "7", "2", "9", "5">>, <<65535, 65535>>>>}
IsNumber(str) == \E e \in NumberTable : e[1] = str
NumberValue(str) == (CHOOSE e \in NumberTable : e[1] = str)[2]

BadArguments(cmd) ==
    \/ cmd.sub \in {"server", "client"} /\ ~IsNumber(cmd.port)
    \/ cmd.sub = "client" /\ ~IsNumber(cmd.cid)

\* C25: argument errors stop the program before any component starts. With
\* a --port (or, for client, a --cid) that is not a u32 number, neither
\* server nor client is called, main does not get past ok_or_exit, and the
\* exit code is not 0.
C25_BadArgumentsStopProgram ==
    BadArguments(aCmd)
        => /\ aStarted = "none"
           /\ aPc \in {"get_matches", "ok_or_exit", "exited"}
           /\ aPc = "ok_or_exit" => aResult[1] = "Err"
           /\ aPc = "exited" => aExit # 0

C25_Witness ==
    /\ aCmd.sub = "server" /\ aCmd.port = <<"a", "b", "c">>
    /\ aPc = "exited" /\ aExit = 1 /\ aStarted = "none"

\* C26: the result of new_with. With number strings it is Ok with exactly
\* their values; otherwise it is Err "cid is not a number" for a bad cid,
\* also when the port is bad too, and Err "port is not a number" for a bad
\* port.
C26_NewWithResult ==
    aResult # <<"none">>
        => /\ aCmd.sub = "server" /\ IsNumber(aCmd.port)
                 => aResult = <<"Ok", [port |-> NumberValue(aCmd.port)]>>
           /\ aCmd.sub = "server" /\ ~IsNumber(aCmd.port)
                 => aResult = <<"Err", "port is not a number">>
           /\ aCmd.sub = "client" /\ IsNumber(aCmd.cid) /\ IsNumber(aCmd.port)
                 => aResult = <<"Ok", [cid |-> NumberValue(aCmd.cid),
                                       port |-> NumberValue(aCmd.port)]>>
           /\ aCmd.sub = "client" /\ ~IsNumber(aCmd.cid)
                 => aResult = <<"Err", "cid is not a number">>
           /\ aCmd.sub = "client" /\ IsNumber(aCmd.cid) /\ ~IsNumber(aCmd.port)
                 => aResult = <<"Err", "port is not a number">>

C26_Witness ==
    /\ aCmd.sub = "client"
    /\ aCmd.cid = <<"-", "1">>
    /\ aCmd.port = <<"4", "2", "9", "4", "9", "6", "7", "2", "9", "6">>
    /\ aResult = <<"Err", "cid is not a number">>

\* C27: ok_or_exit. On Ok it returns the contained value unchanged and the
\* process goes on; on Err it does not return (the caller's next statement
\* is not run) and the process ends with exit code 1.
C27_OkOrExit ==
    aPc \in {"running", "exited"} /\ aResult # <<"none">>
        => /\ aResult[1] = "Ok"
                 => aPc = "running" /\ aArgs = aResult[2] /\ aExit = 0
                    /\ aStarted = aCmd.sub
           /\ aResult[1] = "Err"
                 => aPc = "exited" /\ aExit = 1 /\ aArgs = <<>>
                    /\ aStarted = "none" /\ ~ENABLED NextCli

C27_Witness ==
    /\ aPc = "running" /\ aStarted = "client"
    /\ aArgs = [cid |-> <<0, 1>>, port |-> <<65535, 65535>>]

\* the port number that each number string selects: its value modulo 2^16
PortTable ==
    {<<<<"8", "0", "8", "0">>, 8080>>,
     <<<<"0">>, 0>>,
     <<<<"0", "0", "7">>, 7>>,
     <<<<"+", "5">>, 5>>,
     <<<<"6", "5", "5", "3", "6">>, 0>>,
     <<<<"4", "2", "9", "4", "9", "6", "7", "2", "9", "5">>, 65535>>}
PortSelected(str) == (CHOOSE e \in PortTable : e[1] = str)[2]

\* C37: the port used is the parsed port modulo 2^16. Every u32 value that
\* the parser accepts is passed on, 65536 and above included, and the port
\* given to the socket address is the value modulo 65536, so that "65536"
\* and "0" select the same port.
C37_PortModulo65536 ==
    /\ aPc \in {"running", "serving"}
          => IsNumber(aCmd.port) /\ aArgs.port = NumberValue(aCmd.port)
    /\ aPc = "serving"
          => aPort = PortSelected(aCmd.port) /\ aStarted = aCmd.sub
    /\ aPc = "ok_or_exit" /\ ~BadArguments(aCmd) => aResult[1] = "Ok"
    /\ aPc = "running" => ENABLED CliUsePort

\* the server is given port 0 for --port 65536
C37_Witness ==
    /\ aPc = "serving" /\ aStarted = "server"
    /\ aCmd.port = <<"6", "5", "5", "3", "6">>
    /\ aArgs.port = <<0, 1>>
    /\ aPort = 0

====
